---- MODULE Spec2Model ----
(***************************************************************************)
(* A model of the autorec MIDI auto-recorder:                              *)
(*   - player.rs   : MidiPlayer (helper process + supervisor task) and     *)
(*                   MidiPlayQueue (single-slot playback queue)            *)
(*   - app.rs      : the coordinator's event loop (app_event_loop)         *)
(*   - recorder.rs : the song segmenter (run_recorder / record_song)       *)
(* Each component has its own specification (SpecQueue, SpecApp, SpecRec); *)
(* the MidiPlayer actions are shared by SpecQueue and SpecApp.             *)
(***************************************************************************)
EXTENDS Integers, Sequences, FiniteSets, TLC

\* ------------------------------------------------------------------ bounds
\* number of MidiPlayer instances (helper processes) ever created
MaxPlayers == 2

\* Option::None for ids (player handles, tokens, recording ids, devices)
None == 0

\* number of play_recording / stop_playing requests sent to the coordinator
MaxRequests == 2
\* number of DeviceConnected events the device listener delivers
MaxConnects == 2

\* number of events the recorder delivers before it is unsubscribed
MaxEvents == 2

\* number of sequencer events read from one recorder's port
MaxAlsaEvents == 3

\* number of sequencer clients (the program's own and devices) that appear
\* after the device listener was made
MaxClients == 3

\* recorder.rs line 52
MAX_IDLE_PERIODS == 6
\* RecordEvent.timestamp is a u32 queue tick; the model keeps the wrap-around
\* arithmetic but on a narrower word, so that TLC's integers can hold it
TickModulus == 256
\* how far the queue tick advances between two delivered events
TickDeltas == {0, 1}
\* the sequencer events that reach the recorder's port: one key pressed,
\* "pressed" with velocity 0 and released, the sustain pedal at both sides of
\* its threshold, one controller the keyboard state ignores, an event of a
\* type the recorder does not record, and the end of the subscription
AlsaEvents ==
    { [type |-> "Noteon", channel |-> 0, param |-> 60, value |-> 100],
      [type |-> "Noteon", channel |-> 0, param |-> 60, value |-> 0],
      [type |-> "Noteoff", channel |-> 0, param |-> 60, value |-> 64],
      [type |-> "Controller", channel |-> 0, param |-> 64, value |-> 64],
      [type |-> "Controller", channel |-> 0, param |-> 64, value |-> 63],
      [type |-> "Controller", channel |-> 0, param |-> 1, value |-> 127],
      [type |-> "Pitchbend", channel |-> 0, param |-> 0, value |-> 100],
      [type |-> "PortUnsubscribed", channel |-> 0, param |-> 0, value |-> 0] }

\* mutant: a Noteon is recorded as NoteOn whatever its velocity
NoteonAsIs(ev) ==
    [kind |-> "NoteOn", channel |-> ev.channel, key |-> ev.param, value |-> ev.value]

\* MidiRecorder::next, lines 338-354: Noteon with velocity 0 is a NoteOff
Noteon(ev) ==
    IF ev.value > 0
    THEN [kind |-> "NoteOn", channel |-> ev.channel, key |-> ev.param, value |-> ev.value]
    ELSE [kind |-> "NoteOff", channel |-> ev.channel, key |-> ev.param, value |-> 0]

\* MidiRecorder::next, lines 337-377: the `payload` of a sequencer event, as a
\* sequence of at most one MidiEvent (<<>> is None)
MidiEvent(ev) ==
    CASE ev.type = "Noteon" -> <<Noteon(ev)>>
      [] ev.type = "Noteoff" ->
            <<[kind |-> "NoteOff", channel |-> ev.channel, key |-> ev.param, value |-> 0]>>
      [] ev.type = "Controller" ->
            <<[kind |-> "ControlChange", channel |-> ev.channel, key |-> ev.param,
               value |-> ev.value]>>
      [] OTHER -> <<>>

\* the payloads the recorder delivers: what MidiRecorder::next makes of the
\* sequencer events
Payloads ==
    {MidiEvent(ev)[1] : ev \in {e \in AlsaEvents : MidiEvent(e) # <<>>}}

Players == 1..MaxPlayers
Tokens == {1, 2}
RecordingIds == {1, 2}
Devices == {1}
\* mpsc::channel::<AppEvent>(16)
AppChannelCapacity == 16

VARIABLES
    \* player.rs, MidiPlayer: one record per instance ever created
    midi_players,
    \* player.rs, MidiPlayQueue
    q_current,      \* QueueShared.current
    q_player,       \* MidiPlayQueue.player: the (player, waiter) pair, by player id
    q_waiters,      \* the completion waiter task spawned by play, per player
    q_events,       \* what a never-lagging subscriber of tx has received
    q_pc,           \* where the (single, &mut self) caller of the queue is
    q_taken,        \* the pair taken out of self.player by the running call
    q_token,        \* the token argument of the running play call
    q_ret,          \* the last call that returned
    \* app.rs, State
    listening_device,
    player_current,
    player_queued,
    player,         \* Option<MidiPlayer>, by player id
    \* app.rs, App and its tasks
    app_rx,         \* the AppEvent channel (app_tx -> app_rx), FIFO
    changes,        \* what a never-lagging subscriber of change_tx has received
    notifiers,      \* the task play_recording spawns per player (awaits `notifier`)
    recorder_task,  \* how many tasks spawned by handle_new_device are running
    requests,       \* play_recording / stop_playing calls made so far
    connects,       \* DeviceConnected events delivered so far
    \* recorder.rs, run_recorder / record_song
    rec_pc,         \* none | first (line 13) | song (line 63) | done (Ok) | failed (Err)
    recorder_poll,  \* MidiRecorder.poll is Some: next() has not yielded None yet
    queue_tick,     \* tick of the last event the ALSA queue stamped
    delivered,      \* number of events next() has yielded
    keyboard_state,
    idle_periods,
    start_tick,
    events,         \* the song being recorded
    songs,          \* the songs handed to finish_recording, with their stop reason
    timeouts,       \* timeouts elapsed since the last event of the song
    \* store.rs, RecordingStore and the data directory
    store_pc,       \* RecordingStore::open: migrating | open (Ok) | failed (Err)
    migrations,     \* the ids of the `migrations` table, in insertion order
    backups,        \* the files autorec.db.v<v>: the tables as copied at version v
    recordings,     \* the rows of the `recordings` table
    data_directory, \* the *.mid files of the data directory
    store_log,      \* the calls made on the store, with their results
    \* midi/alsa_backend.rs, MidiRecorder and its EventsPoll
    alsa_in,        \* the sequencer events read from the recorder's port so far
    seq_input,      \* the events waiting at the recorder's port, not yet read
    event_buffer,   \* EventsPoll.event_buffer of the recorder
    yielded,        \* what MidiRecorder::next has returned so far
    \* midi/alsa_backend.rs, MidiRegistry, the ALSA sequencer and DeviceListener
    registry,       \* Data.clients
    seq_clients,    \* the clients open at the sequencer, each with its port
    announce,       \* the announcements sent to the listener and not yet handled
    active,         \* DeviceListener.active
    device_events,  \* what DeviceListener::next has returned so far
    announced       \* number of announcements sent so far

mpvars == <<midi_players>>
qvars == <<q_current, q_player, q_waiters, q_events, q_pc, q_taken, q_token, q_ret>>
appvars == <<listening_device, player_current, player_queued, player, app_rx, changes,
             notifiers, recorder_task, requests, connects>>
recvars == <<rec_pc, recorder_poll, queue_tick, delivered, keyboard_state,
             idle_periods, start_tick, events, songs, timeouts>>
storevars == <<store_pc, migrations, backups, recordings, data_directory, store_log>>
midivars == <<alsa_in, seq_input, event_buffer, yielded, registry, seq_clients, announce, active,
              device_events, announced>>
vars == <<midi_players, q_current, q_player, q_waiters, q_events, q_pc, q_taken,
          q_token, q_ret, listening_device, player_current, player_queued, player,
          app_rx, changes, notifiers, recorder_task, requests, connects,
          rec_pc, recorder_poll, queue_tick, delivered, keyboard_state,
          idle_periods, start_tick, events, songs, timeouts,
          store_pc, migrations, backups, recordings, data_directory, store_log,
          alsa_in, seq_input, event_buffer, yielded, registry, seq_clients, announce,
          active,
          device_events, announced>>

\* ------------------------------------------------------- player.rs MidiPlayer
\* proc:      the aplaymidi child: none | alive | exited (by itself) | killed
\* cancelled: the CancellationToken
\* sup:       the supervisor task: none | select | reset | reset_wait | done
\*            (done = the task's future is finished: completed_tx was used or dropped)
\* reset:     the GM Reset invocation of reset_output: none | running | flushed | failed
NoMidiPlayer == [proc |-> "none", cancelled |-> FALSE, sup |-> "none", reset |-> "none"]

\* the next unused player id
NextPlayer == 1 + Cardinality({i \in Players : midi_players[i].sup # "none"})

\* MidiPlayer::new, the Ok path: the child is spawned and the supervisor task started
MidiPlayer_new(mp, i) ==
    [mp EXCEPT ![i] =
        [proc |-> "alive", cancelled |-> FALSE, sup |-> "select", reset |-> "none"]]

\* MidiPlayer::stop and Drop: cancel the token (idempotent)
MidiPlayer_stop(mp, i) ==
    IF i = None THEN mp ELSE [mp EXCEPT ![i].cancelled = TRUE]

\* the oneshot `completed` resolves (Ok or Err) once the supervisor has finished
Completed(i) == midi_players[i].sup = "done"

\* the helper process ends by itself (end of the MIDI data, or an error)
ProcExit(i) ==
    /\ midi_players[i].proc = "alive"
    /\ midi_players' = [midi_players EXCEPT ![i].proc = "exited"]

\* select!: `proc.wait()` is ready: normal exit, completed_tx.send(())
SupervisorExited(i) ==
    /\ midi_players[i].sup = "select"
    /\ midi_players[i].proc = "exited"
    /\ midi_players' = [midi_players EXCEPT ![i].sup = "done"]

\* mutant: the cancellation branch kills the helper and skips reset_output
SupervisorCancelledNoReset(i) ==
    /\ midi_players[i].sup = "select"
    /\ midi_players[i].cancelled
    /\ midi_players' = [midi_players EXCEPT
          ![i].sup = "done",
          ![i].proc = IF @ = "alive" THEN "killed" ELSE @]

\* select!: `cancelled()` is ready: proc.kill().await, then reset_output
SupervisorCancelled(i) ==
    /\ midi_players[i].sup = "select"
    /\ midi_players[i].cancelled
    /\ midi_players' = [midi_players EXCEPT
          ![i].sup = "reset",
          ![i].proc = IF @ = "alive" THEN "killed" ELSE @]

\* reset_output: spawn_aplaymidi(output, 0); a failed spawn is skipped silently
ResetOutput(i) ==
    /\ midi_players[i].sup = "reset"
    /\ \/ midi_players' = [midi_players EXCEPT ![i].sup = "reset_wait", ![i].reset = "running"]
       \/ midi_players' = [midi_players EXCEPT ![i].sup = "done", ![i].reset = "failed"]

\* reset_output: the GM Reset helper was fed and has exited (reset_cmd.wait())
ResetExit(i) ==
    /\ midi_players[i].sup = "reset_wait"
    /\ midi_players' = [midi_players EXCEPT ![i].sup = "done", ![i].reset = "flushed"]

\* the state of app.rs right after App::new, before any event
AppIdle ==
    /\ listening_device = None
    /\ player_current = None
    /\ player_queued = None
    /\ player = None
    /\ app_rx = <<>>
    /\ changes = <<>>
    /\ notifiers = [i \in Players |-> "none"]
    /\ recorder_task = 0
    /\ requests = 0
    /\ connects = 0

\* run_recorder has not been started
RecorderIdle ==
    /\ rec_pc = "first"
    /\ recorder_poll = TRUE
    /\ queue_tick = 0
    /\ delivered = 0
    /\ keyboard_state = [sustain_channels |-> {}, pressed_keys |-> {}]
    /\ idle_periods = 0
    /\ start_tick = 0
    /\ events = <<>>
    /\ songs = <<>>
    /\ timeouts = 0

\* no recorder exists: no device is listened to
RecorderNone ==
    /\ rec_pc = "none"
    /\ recorder_poll = FALSE
    /\ queue_tick = 0
    /\ delivered = 0
    /\ keyboard_state = [sustain_channels |-> {}, pressed_keys |-> {}]
    /\ idle_periods = 0
    /\ start_tick = 0
    /\ events = <<>>
    /\ songs = <<>>
    /\ timeouts = 0

\* the store of a fresh, empty data directory after RecordingStore::open
StoreIdle ==
    /\ store_pc = "open"
    /\ migrations = <<0, 1, 2>>
    /\ backups = {[version |-> 0, migrations |-> <<0>>, recordings |-> {}],
                  [version |-> 1, migrations |-> <<0, 1>>, recordings |-> {}]}
    /\ recordings = {}
    /\ data_directory = {}
    /\ store_log = <<>>

\* no ALSA client but the system's exists, and no recorder has read anything
MidiIdle ==
    /\ alsa_in = <<>>
    /\ seq_input = <<>>
    /\ event_buffer = <<>>
    /\ yielded = <<>>
    /\ registry = {}
    /\ seq_clients = {}
    /\ announce = <<>>
    /\ active = {}
    /\ device_events = <<>>
    /\ announced = 0

\* the state of a MidiPlayQueue right after MidiPlayQueue::new
QueueIdle ==
    /\ q_current = None
    /\ q_player = None
    /\ q_waiters = [i \in Players |-> [state |-> "none", token |-> None]]
    /\ q_events = <<>>
    /\ q_pc = "idle"
    /\ q_taken = None
    /\ q_token = None
    /\ q_ret = [op |-> "none", ok |-> TRUE, before |-> None, target |-> None]

\* ---------------------------------------------------- player.rs MidiPlayQueue
QueueEvent(k, t, p) == [kind |-> k, token |-> t, player |-> p]

\* play, lines 166-168: take the previous pair, stop it, start awaiting its waiter
QueuePlay(token) ==
    /\ q_pc = "idle"
    /\ NextPlayer <= MaxPlayers
    /\ q_pc' = "play"
    /\ q_token' = token
    /\ q_taken' = q_player
    /\ q_player' = None
    /\ midi_players' = MidiPlayer_stop(midi_players, q_player)
    /\ q_ret' = [op |-> "none", ok |-> TRUE, before |-> q_current, target |-> q_player]
    /\ UNCHANGED <<q_current, q_waiters, q_events>>
    /\ UNCHANGED <<appvars, recvars, storevars, midivars>>

\* mutant: play and stop do not await the waiter of the pair they took
WaiterNotAwaited(p) == TRUE

\* whether `waiter.await` of the taken pair has finished
WaiterJoined(p) == IF p = None THEN TRUE ELSE q_waiters[p].state = "done"

\* play, lines 171-197: MidiPlayer::new succeeded
QueuePlayStarted ==
    /\ q_pc = "play"
    /\ WaiterJoined(q_taken)
    /\ LET p == NextPlayer IN
        /\ midi_players' = MidiPlayer_new(midi_players, p)
        /\ q_events' = Append(q_events, QueueEvent("PlaybackStart", q_token, p))
        /\ q_current' = q_token
        /\ q_waiters' = [q_waiters EXCEPT ![p] = [state |-> "waiting", token |-> q_token]]
        /\ q_player' = p
    /\ q_pc' = "idle"
    /\ q_ret' = [q_ret EXCEPT !.op = "play", !.ok = TRUE]
    /\ q_taken' = None
    /\ q_token' = None
    /\ UNCHANGED <<appvars, recvars, storevars, midivars>>

\* mutant: `current` is set to the new token before the player is spawned
QueuePlayFailedSetsCurrent ==
    /\ q_pc = "play"
    /\ WaiterJoined(q_taken)
    /\ q_pc' = "idle"
    /\ q_ret' = [q_ret EXCEPT !.op = "play", !.ok = FALSE]
    /\ q_current' = q_token
    /\ q_taken' = None
    /\ q_token' = None
    /\ UNCHANGED <<midi_players, q_player, q_waiters, q_events>>
    /\ UNCHANGED <<appvars, recvars, storevars, midivars>>

\* play, line 171: MidiPlayer::new failed, `?` returns the error
QueuePlayFailed ==
    /\ q_pc = "play"
    /\ WaiterJoined(q_taken)
    /\ q_pc' = "idle"
    /\ q_ret' = [q_ret EXCEPT !.op = "play", !.ok = FALSE]
    /\ q_taken' = None
    /\ q_token' = None
    /\ UNCHANGED <<midi_players, q_current, q_player, q_waiters, q_events>>
    /\ UNCHANGED <<appvars, recvars, storevars, midivars>>

\* the waiter task, lines 183-192
QueueWaiter(p) ==
    /\ q_waiters[p].state = "waiting"
    /\ Completed(p)
    /\ q_current' = None
    /\ q_events' = Append(q_events, QueueEvent("PlaybackStop", q_waiters[p].token, p))
    /\ q_waiters' = [q_waiters EXCEPT ![p].state = "done"]
    /\ UNCHANGED <<midi_players, q_player, q_pc, q_taken, q_token, q_ret>>
    /\ UNCHANGED <<appvars, recvars, storevars, midivars>>

\* stop, lines 201-203 up to the await; with no pair it returns at once
QueueStop ==
    /\ q_pc = "idle"
    /\ q_taken' = q_player
    /\ q_player' = None
    /\ midi_players' = MidiPlayer_stop(midi_players, q_player)
    /\ q_pc' = IF q_player = None THEN "idle" ELSE "stop"
    /\ q_ret' = [op |-> IF q_player = None THEN "stop" ELSE "none", ok |-> TRUE,
                 before |-> q_current, target |-> q_player]
    /\ UNCHANGED <<q_current, q_waiters, q_events, q_token>>
    /\ UNCHANGED <<appvars, recvars, storevars, midivars>>

\* stop, lines 203-205: the waiter was joined, stop returns
QueueStopReturn ==
    /\ q_pc = "stop"
    /\ WaiterJoined(q_taken)
    /\ q_pc' = "idle"
    /\ q_ret' = [q_ret EXCEPT !.op = "stop"]
    /\ q_taken' = None
    /\ UNCHANGED <<midi_players, q_current, q_player, q_waiters, q_events, q_token>>
    /\ UNCHANGED <<appvars, recvars, storevars, midivars>>

QueueInit ==
    /\ midi_players = [i \in Players |-> NoMidiPlayer]
    /\ QueueIdle
    /\ AppIdle
    /\ RecorderIdle
    /\ StoreIdle
    /\ MidiIdle

QueueNext ==
    \/ \E t \in Tokens : QueuePlay(t)
    \/ QueuePlayStarted
    \/ QueuePlayFailed
    \/ \E p \in Players : QueueWaiter(p)
    \/ QueueStop
    \/ QueueStopReturn
    \/ \E i \in Players : ProcExit(i) /\ UNCHANGED <<qvars, appvars, recvars, storevars, midivars>>
    \/ \E i \in Players : SupervisorExited(i) /\ UNCHANGED <<qvars, appvars, recvars, storevars, midivars>>
    \/ \E i \in Players : SupervisorCancelled(i) /\ UNCHANGED <<qvars, appvars, recvars, storevars, midivars>>
    \/ \E i \in Players : ResetOutput(i) /\ UNCHANGED <<qvars, appvars, recvars, storevars, midivars>>
    \/ \E i \in Players : ResetExit(i) /\ UNCHANGED <<qvars, appvars, recvars, storevars, midivars>>

SpecQueue == QueueInit /\ [][QueueNext]_vars

\* ----------------------------------------------------- claims on MidiPlayQueue
StartEvents == {k \in 1..Len(q_events) : q_events[k].kind = "PlaybackStart"}
StopEvents == {k \in 1..Len(q_events) : q_events[k].kind = "PlaybackStop"}
Ended(p) == Completed(p) /\ midi_players[p].proc \in {"exited", "killed"}

\* C1: the subscriber's sequence is Start(t1), Stop(t1), Start(t2), Stop(t2), ...:
\* every PlaybackStart but the first directly follows the PlaybackStop of the
\* playback before it, every PlaybackStop directly follows the PlaybackStart of
\* the same playback, carries that playback's token and is published only once
\* that playback's helper has ended; and once no waiter is pending every
\* started playback has had its PlaybackStop.
C1_PreemptionOrder ==
    /\ \A k \in 1..Len(q_events) :
         IF k % 2 = 1
         THEN q_events[k].kind = "PlaybackStart"
         ELSE /\ q_events[k].kind = "PlaybackStop"
              /\ q_events[k].player = q_events[k - 1].player
              /\ q_events[k].token = q_events[k - 1].token
              /\ Ended(q_events[k].player)
    /\ (\A p \in Players : q_waiters[p].state # "waiting") => Len(q_events) % 2 = 0

\* C1 witness: play(1) succeeded, play(2) preempted it (its helper was killed),
\* and the subscriber saw Start(1), Stop(1), Start(2), Stop(2)
C1_Witness ==
    /\ Len(q_events) = 4
    /\ midi_players[1].proc = "killed"
    /\ [k \in 1..4 |-> <<q_events[k].kind, q_events[k].token>>] =
         << <<"PlaybackStart", 1>>, <<"PlaybackStop", 1>>,
            <<"PlaybackStart", 2>>, <<"PlaybackStop", 2>> >>

\* C4: at most one playback helper is alive, and whenever a later player exists
\* every earlier one has ended (helper exited or killed, supervisor finished)
\* and its completion waiter has finished.
C4_AtMostOnePlayback ==
    /\ Cardinality({p \in Players : midi_players[p].proc = "alive"}) <= 1
    /\ \A p1, p2 \in Players :
         (p1 < p2 /\ midi_players[p2].sup # "none")
            => (Ended(p1) /\ q_waiters[p1].state = "done")

\* C4 witness: a second helper is alive after the first was killed by preemption
C4_Witness ==
    /\ midi_players[1].proc = "killed"
    /\ midi_players[2].proc = "alive"

\* C5 (as claimed): once stop() has returned from cancelling a playback, the
\* helper is terminated and a GM Reset has been flushed
C5_StopFlushedReset ==
    (q_ret.op = "stop" /\ q_ret.target # None)
        => /\ midi_players[q_ret.target].proc \in {"exited", "killed"}
           /\ midi_players[q_ret.target].reset = "flushed"

\* C5 (amended): once stop() has returned from cancelling a playback, the
\* supervisor has finished and the helper has exited or been killed; no GM Reset
\* invocation is still running; and if the helper was killed (cancellation
\* branch), reset_output ran to its end: the GM Reset helper exited, or could
\* not be spawned.
C5_StopAwaitsSupervisor ==
    (q_ret.op = "stop" /\ q_ret.target # None)
        => /\ Ended(q_ret.target)
           /\ midi_players[q_ret.target].reset # "running"
           /\ midi_players[q_ret.target].proc = "killed"
                 => midi_players[q_ret.target].reset \in {"flushed", "failed"}

\* C5 witness: stop() returned after the helper was killed and the reset flushed
C5_Witness ==
    /\ q_ret.op = "stop"
    /\ q_ret.target # None
    /\ midi_players[q_ret.target].proc = "killed"
    /\ midi_players[q_ret.target].reset = "flushed"

\* C6 (as claimed): after play returned a spawn error, `current` is what it was
\* before the call
C6_FailedPlayKeepsCurrent ==
    (q_ret.op = "play" /\ ~q_ret.ok) => q_current = q_ret.before

\* C6 (amended): after play returned a spawn error, `current` is None and no pair
\* is held (so `current` is unchanged exactly when it was None before), and no
\* PlaybackStart was published for the failed request: the last event, if any,
\* is a PlaybackStop.
C6_FailedPlayClearsCurrent ==
    (q_ret.op = "play" /\ ~q_ret.ok)
        => /\ q_current = None
           /\ q_player = None
           /\ Len(q_events) > 0 => q_events[Len(q_events)].kind = "PlaybackStop"

\* C6 witness: a play that failed to spawn while a playback was still active
C6_Witness ==
    /\ q_ret.op = "play"
    /\ ~q_ret.ok
    /\ q_ret.before # None
    /\ q_current = None

\* ------------------------------------------------------------------ store.rs
\* the calls made on one open store
MaxStoreOps == 3
\* the times the program is started on one data directory
MaxOpens == 2

\* midi.rs RECORDING_BPM / RECORDING_PPQ: the tempo of every recording queue
RECORDING_BPM == 120
RECORDING_PPQ == 96

\* migrate, line 177
LATEST_VERSION == 2

\* a midly::TrackEvent: delta ticks and the kind of event
TrackEvent(delta, kind) == [delta |-> delta, kind |-> kind]

\* a midly::Smf: its tracks
Smf(tracks) == [tracks |-> tracks]

\* the files insert_recording is called with: no track, and a track of 3 ticks
InsertSmfs ==
    { Smf(<<>>),
      Smf(<< <<TrackEvent(0, "Tempo"), TrackEvent(1, "NoteOn"),
               TrackEvent(2, "NoteOff"), TrackEvent(0, "EndOfTrack")>> >>) }

\* the legacy *.mid files a data directory may hold before the first startup;
\* filenames are timestamps, here 1 < 2; legacy files carry no Tempo event
LegacyFiles ==
    { [filename |-> 1,
       smf |-> Smf(<< <<TrackEvent(0, "NoteOn"), TrackEvent(1, "NoteOn"),
                        TrackEvent(2, "NoteOff"), TrackEvent(0, "EndOfTrack")>> >>)],
      [filename |-> 2, smf |-> Smf(<<>>)] }

StoreIds == 1..2
StoreNames == {"", "a"}

RECURSIVE SumDeltas(_)
\* compute_midi_stats, line 397: the sum of the deltas of a track
SumDeltas(track) ==
    IF track = <<>> THEN 0 ELSE Head(track).delta + SumDeltas(Tail(track))

\* compute_midi_stats, lines 396-415; the Duration is kept in microseconds
compute_midi_stats(track) ==
    [length |-> (SumDeltas(track) * 1000000 * 60) \div (RECORDING_BPM * RECORDING_PPQ),
     note_count |-> Cardinality({k \in 1..Len(track) : track[k].kind = "NoteOn"})]

\* Duration::as_secs_f64 as bound to the REAL column length_seconds: an exact
\* fraction num/den of microseconds
LengthSeconds(micros) == [num |-> micros, den |-> 1]

\* compress_midi / decompress_midi, lines 417-423
compress_midi(midi) == [zstd |-> midi]
decompress_midi(blob) == blob.zstd

\* migrate, lines 170-173: SELECT MAX(id) FROM migrations; -1 stands for NULL
DbVersion ==
    IF migrations = <<>> THEN -1 ELSE migrations[Len(migrations)]

RowIds == {r.id : r \in recordings}

\* the row with a given id
Row(id) == CHOOSE r \in recordings : r.id = id

\* `id INTEGER PRIMARY KEY NOT NULL` (lines 235-236) without AUTOINCREMENT: an
\* insert that gives no id takes one more than the largest id in the table
NextRowId ==
    IF recordings = {} THEN 1
    ELSE 1 + (CHOOSE m \in RowIds : \A i \in RowIds : i <= m)

\* a call on the store and its result
StoreCall(op, id, ok) == [op |-> op, id |-> id, ok |-> ok]

\* RecordingStore::open has returned: Ok at `version`, or Err
OpenReturned(version, ok) == StoreCall("open", version, ok)

\* the calls made on the store, RecordingStore::open apart
StoreOps == Cardinality({k \in 1..Len(store_log) : store_log[k].op # "open"})

\* the times RecordingStore::open has returned
Opens == Cardinality({k \in 1..Len(store_log) : store_log[k].op = "open"})

\* Utc::now() / chrono::Local::now(): later than the legacy files' timestamps
\* (1..3) and than the time of every earlier call
UtcNow == 10 + Len(store_log)

\* mutant: a migration records the version after the next
NewVersionSkipsOne(version) == version + 2

\* migrate, line 210: version.map_or(0, |v| v + 1)
NewVersion(version) == version + 1

\* mutant: a backup is taken at every version, the latest included
NeedsBackupAtLatest(version) == version >= 0

\* migrate, lines 180-181: `if let Some(version)` and `version < LATEST_VERSION`
NeedsBackup(version) == version >= 0 /\ version < LATEST_VERSION

\* the file std::fs::copy(orig, backup) writes (line 189): autorec.db.v<version>
\* with the tables as they are
Backup(version) ==
    [version |-> version, migrations |-> migrations, recordings |-> recordings]

\* mutant: an existing backup file is overwritten
BackupNeverExists(version) == FALSE

\* migrate, line 186: backup.exists()
BackupExists(version) == \E b \in backups : b.version = version

\* std::fs::copy creates the file, or replaces its contents
BackupsWith(version) ==
    {b \in backups : b.version # version} \cup {Backup(version)}

\* mutant: what the failed step had written so far stays in the table
RollbackLost(before, written) == written

\* migrate, lines 192-221: the sqlx Transaction of a step is dropped without
\* commit() when the step leaves with `?` or bail!, which rolls it back
Rollback(before, written) == before

\* migrate bails out (`?` or bail!): the open transaction, in which the step
\* has left the rows `written`, is rolled back and RecordingStore::open
\* returns the error
MigrateFailed(written) ==
    /\ store_pc' = "failed"
    /\ store_log' = Append(store_log, OpenReturned(DbVersion, FALSE))
    /\ recordings' = Rollback(recordings, written)
    /\ UNCHANGED migrations

\* migrate_000_init, lines 229-285: create the table and ingest the *.mid
\* files in chronological (filename) order; ledger row 0 (no backup: the
\* version is None)
Migrate000 ==
    /\ store_pc = "migrating"
    /\ DbVersion = -1
    /\ recordings' =
          { [id |-> Cardinality({g \in data_directory : g.filename <= f.filename}),
             created_at |-> f.filename,
             name |-> "", filename |-> f.filename] : f \in data_directory }
    /\ migrations' = Append(migrations, NewVersion(DbVersion))
    /\ UNCHANGED <<store_pc, backups, data_directory, store_log>>
    /\ UNCHANGED <<mpvars, qvars, appvars, recvars, midivars>>

\* the row of migrate_001 for one v0 row: the file's first track gets a Tempo
\* event in front, the stats are derived from it (lines 317-364)
Migrated001Row(r) ==
    LET file == CHOOSE f \in data_directory : f.filename = r.filename
        tracks == [k \in 1..Len(file.smf.tracks) |->
                      <<TrackEvent(0, "Tempo")>> \o file.smf.tracks[k]]
        stats == compute_midi_stats(tracks[1])
    IN  [id |-> r.id, created_at |-> r.created_at, name |-> r.name,
         midi |-> compress_midi(Smf(tracks)),
         length_seconds |-> LengthSeconds(stats.length),
         note_count |-> stats.note_count]

\* the rows whose file migrate_001 cannot turn into a v1 row: no track (line 372)
Trackless ==
    {r \in recordings :
        (CHOOSE f \in data_directory : f.filename = r.filename).smf.tracks = <<>>}

\* migrate_001 has added the three columns with their defaults (lines 305-313)
\* and updated the rows before `failing` (lines 317-370, in the order of the
\* ids) when it leaves at that row; the column filename is still there
Written001(failing) ==
    { IF r.id < failing.id
      THEN [id |-> r.id, created_at |-> r.created_at, name |-> r.name,
            filename |-> r.filename,
            midi |-> Migrated001Row(r).midi,
            length_seconds |-> Migrated001Row(r).length_seconds,
            note_count |-> Migrated001Row(r).note_count]
      ELSE [id |-> r.id, created_at |-> r.created_at, name |-> r.name,
            filename |-> r.filename,
            midi |-> compress_midi(Smf(<<>>)),
            length_seconds |-> LengthSeconds(0),
            note_count |-> 0] : r \in recordings }

\* migrate, lines 179-222, at version 0: backup autorec.db.v0, then
\* migrate_001_inline_midi_storage_and_meta in one transaction, ledger row 1;
\* a file without a track (line 372) or an existing backup (line 186) fails
\* the startup and leaves the tables as they were
Migrate001 ==
    /\ store_pc = "migrating"
    /\ DbVersion = 0
    /\ IF NeedsBackup(DbVersion) /\ BackupExists(DbVersion)
       THEN /\ MigrateFailed(recordings)
            /\ UNCHANGED backups
       ELSE /\ backups' = IF NeedsBackup(DbVersion) THEN BackupsWith(DbVersion) ELSE backups
            /\ IF Trackless # {}
               THEN MigrateFailed(Written001(
                        CHOOSE r \in Trackless : \A q \in Trackless : r.id <= q.id))
               ELSE /\ recordings' = {Migrated001Row(r) : r \in recordings}
                    /\ migrations' = Append(migrations, NewVersion(DbVersion))
                    /\ UNCHANGED <<store_pc, store_log>>
    /\ UNCHANGED data_directory
    /\ UNCHANGED <<mpvars, qvars, appvars, recvars, midivars>>

\* migrate at version 0, the backup taken, and std::fs::read (line 322) fails:
\* the startup fails and leaves the tables as they were
Migrate001ReadFails(failing) ==
    /\ store_pc = "migrating"
    /\ DbVersion = 0
    /\ failing \in recordings
    /\ \A r \in Trackless : failing.id <= r.id
    /\ ~(NeedsBackup(DbVersion) /\ BackupExists(DbVersion))
    /\ backups' = IF NeedsBackup(DbVersion) THEN BackupsWith(DbVersion) ELSE backups
    /\ MigrateFailed(Written001(failing))
    /\ UNCHANGED data_directory
    /\ UNCHANGED <<mpvars, qvars, appvars, recvars, midivars>>

\* migrate_002_fix_length_seconds, line 389: length_seconds * 96 / 120
LengthFixed(len) == [num |-> len.num * 96, den |-> len.den * 120]

\* migrate at version 1: backup autorec.db.v1, then
\* migrate_002_fix_length_seconds (lines 386-394), ledger row 2
Migrate002 ==
    /\ store_pc = "migrating"
    /\ DbVersion = 1
    /\ IF NeedsBackup(DbVersion) /\ BackupExists(DbVersion)
       THEN /\ MigrateFailed(recordings)
            /\ UNCHANGED backups
       ELSE /\ backups' = IF NeedsBackup(DbVersion) THEN BackupsWith(DbVersion) ELSE backups
            /\ recordings' =
                  {[r EXCEPT !.length_seconds = LengthFixed(r.length_seconds)] :
                      r \in recordings}
            /\ migrations' = Append(migrations, NewVersion(DbVersion))
            /\ UNCHANGED <<store_pc, store_log>>
    /\ UNCHANGED data_directory
    /\ UNCHANGED <<mpvars, qvars, appvars, recvars, midivars>>

\* migrate at LATEST_VERSION (lines 179-204: no backup, `break`) and
\* RecordingStore::open line 64
MigrateDone ==
    /\ store_pc = "migrating"
    /\ DbVersion = LATEST_VERSION
    /\ IF NeedsBackup(DbVersion) /\ BackupExists(DbVersion)
       THEN /\ MigrateFailed(recordings)
            /\ UNCHANGED backups
       ELSE /\ backups' = IF NeedsBackup(DbVersion) THEN BackupsWith(DbVersion) ELSE backups
            /\ store_pc' = "open"
            /\ store_log' = Append(store_log, OpenReturned(DbVersion, TRUE))
            /\ UNCHANGED <<migrations, recordings>>
    /\ UNCHANGED data_directory
    /\ UNCHANGED <<mpvars, qvars, appvars, recvars, midivars>>

\* mutant: a database of a later version is backed up before the startup fails
MigrateTooNewBacksUp ==
    /\ store_pc = "migrating"
    /\ DbVersion > LATEST_VERSION
    /\ backups' = BackupsWith(DbVersion)
    /\ MigrateFailed(recordings)
    /\ UNCHANGED data_directory
    /\ UNCHANGED <<mpvars, qvars, appvars, recvars, midivars>>

\* migrate at a version above LATEST_VERSION (lines 180 and 205-207): no
\* backup, bail!("Version too new!")
MigrateTooNew ==
    /\ store_pc = "migrating"
    /\ DbVersion > LATEST_VERSION
    /\ MigrateFailed(recordings)
    /\ UNCHANGED <<backups, data_directory>>
    /\ UNCHANGED <<mpvars, qvars, appvars, recvars, midivars>>

\* the program is started again on the same data directory:
\* RecordingStore::open, lines 53-65
RecordingStore_open ==
    /\ store_pc \in {"open", "failed"}
    /\ Opens < MaxOpens
    /\ store_pc' = "migrating"
    /\ UNCHANGED <<migrations, backups, recordings, data_directory, store_log>>
    /\ UNCHANGED <<mpvars, qvars, appvars, recvars, midivars>>

\* the row insert_recording writes for an Smf, lines 120-138
InsertedRow(midi) ==
    LET stats == IF midi.tracks = <<>>
                 THEN [length |-> 0, note_count |-> 0]
                 ELSE compute_midi_stats(midi.tracks[1])
    IN  [id |-> NextRowId, created_at |-> UtcNow, name |-> "",
         midi |-> compress_midi(midi),
         length_seconds |-> LengthSeconds(stats.length),
         note_count |-> stats.note_count]

\* RecordingStore::insert_recording, lines 116-142
RecordingStore_insert_recording(midi) ==
    /\ store_pc = "open"
    /\ StoreOps < MaxStoreOps
    /\ recordings' = recordings \cup {InsertedRow(midi)}
    /\ store_log' = Append(store_log, StoreCall("insert", NextRowId, TRUE))
    /\ UNCHANGED <<store_pc, migrations, backups, data_directory>>
    /\ UNCHANGED <<mpvars, qvars, appvars, recvars, midivars>>

\* RecordingStore::delete_recording_by_id, lines 89-98
RecordingStore_delete_recording_by_id(id) ==
    /\ store_pc = "open"
    /\ StoreOps < MaxStoreOps
    /\ recordings' = {r \in recordings : r.id # id}
    /\ store_log' = Append(store_log, StoreCall("delete", id, id \in RowIds))
    /\ UNCHANGED <<store_pc, migrations, backups, data_directory>>
    /\ UNCHANGED <<mpvars, qvars, appvars, recvars, midivars>>

\* a rename_recording_by_id call and its result
RenameCall(id, new_name, ok) ==
    [op |-> "rename", id |-> id, ok |-> ok, name |-> new_name]

\* mutant: only rows whose name really changes count as affected
RowsChanged(id, new_name) ==
    Cardinality({r \in recordings : r.id = id /\ r.name # new_name})

\* rename_recording_by_id, line 110: rows_affected() of the UPDATE is the
\* number of rows the WHERE clause selects, changed or not
RowsAffected(id, new_name) ==
    Cardinality({r \in recordings : r.id = id})

\* RecordingStore::rename_recording_by_id, lines 100-114
RecordingStore_rename_recording_by_id(id, new_name) ==
    /\ store_pc = "open"
    /\ StoreOps < MaxStoreOps
    /\ recordings' = {IF r.id = id THEN [r EXCEPT !.name = new_name] ELSE r :
                         r \in recordings}
    /\ store_log' = Append(store_log,
                           RenameCall(id, new_name, RowsAffected(id, new_name) # 0))
    /\ UNCHANGED <<store_pc, migrations, backups, data_directory>>
    /\ UNCHANGED <<mpvars, qvars, appvars, recvars, midivars>>

\* RecordingStore::get_recording_info_by_id, lines 76-87: fetch_one fails with
\* RowNotFound when no row has the id
RecordingStore_get_recording_info_by_id(id) ==
    /\ store_pc = "open"
    /\ StoreOps < MaxStoreOps
    /\ store_log' = Append(store_log, StoreCall("get_info", id, id \in RowIds))
    /\ UNCHANGED <<store_pc, migrations, backups, recordings, data_directory>>
    /\ UNCHANGED <<mpvars, qvars, appvars, recvars, midivars>>

\* RecordingStore::get_recording_midi, lines 144-152
RecordingStore_get_recording_midi(id) ==
    /\ store_pc = "open"
    /\ StoreOps < MaxStoreOps
    /\ store_log' = Append(store_log, StoreCall("get_midi", id, id \in RowIds))
    /\ UNCHANGED <<store_pc, migrations, backups, recordings, data_directory>>
    /\ UNCHANGED <<mpvars, qvars, appvars, recvars, midivars>>

\* the first startup: a data directory without a database, holding any of the
\* legacy files; or a directory whose database was written by a later version
\* of the program (ledger row 3)
StoreInit ==
    /\ midi_players = [i \in Players |-> NoMidiPlayer]
    /\ QueueIdle
    /\ AppIdle
    /\ RecorderIdle
    /\ MidiIdle
    /\ store_pc = "migrating"
    /\ \/ /\ migrations = <<>>
          /\ data_directory \in SUBSET LegacyFiles
       \/ /\ migrations = <<0, 1, 2, 3>>
          /\ data_directory = {}
    /\ backups = {}
    /\ recordings = {}
    /\ store_log = <<>>

StoreNext ==
    \/ Migrate000
    \/ Migrate001
    \/ \E failing \in recordings : Migrate001ReadFails(failing)
    \/ Migrate002
    \/ MigrateDone
    \/ MigrateTooNew
    \/ RecordingStore_open
    \/ \E midi \in InsertSmfs : RecordingStore_insert_recording(midi)
    \/ \E id \in StoreIds : RecordingStore_delete_recording_by_id(id)
    \/ \E id \in StoreIds, n \in StoreNames : RecordingStore_rename_recording_by_id(id, n)
    \/ \E id \in StoreIds : RecordingStore_get_recording_info_by_id(id)
    \/ \E id \in StoreIds : RecordingStore_get_recording_midi(id)

SpecStore == StoreInit /\ [][StoreNext]_vars

\* --------------------------------------------------- app.rs channels
AppEvent(t, r, d, m) == [type |-> t, recording |-> r, device |-> d, matches |-> m]

\* a StateChange; `by` is not part of the message: it names the player the
\* PlayBegin / PlayEnd is about, for the claims
StateChange(t, r, by) == [type |-> t, recording |-> r, by |-> by]

AppSend(evt) ==
    /\ Len(app_rx) < AppChannelCapacity
    /\ app_rx' = Append(app_rx, evt)

\* the part of the coordinator's state a task that only sends leaves alone
appstate == <<listening_device, player_current, player_queued, player, changes,
              notifiers, recorder_task, requests, connects>>

\* AppEvent::RecordingDone { events }
RecordingDone(evs) ==
    [type |-> "RecordingDone", recording |-> None, device |-> None,
     matches |-> FALSE, events |-> evs]

\* ------------------------------------------------------------ recorder.rs
\* u32 subtraction as the release build does it (wrapping)
WrappingSub(a, b) == (a - b + TickModulus) % TickModulus

\* MidiRecorder::next: the RecordEvent stamped with the queue tick
RecordEvent(tick, payload) == [timestamp |-> tick % TickModulus, payload |-> payload]

\* mutant: the idle detector is never told about an event
KeyboardState_not_updated(ks, payload) == ks

\* KeyboardState::update, lines 119-142
KeyboardState_update(ks, payload) ==
    CASE payload.kind = "NoteOn" ->
            [ks EXCEPT !.pressed_keys = @ \cup {<<payload.channel, payload.key>>}]
      [] payload.kind = "NoteOff" ->
            [ks EXCEPT !.pressed_keys = @ \ {<<payload.channel, payload.key>>}]
      [] payload.kind = "ControlChange" ->
            IF payload.key = 64
            THEN IF payload.value >= 64
                 THEN [ks EXCEPT !.sustain_channels = @ \cup {payload.channel}]
                 ELSE [ks EXCEPT !.sustain_channels = @ \ {payload.channel}]
            ELSE ks

\* mutant: the idle detector ignores the keyboard
KeyboardState_always_idle(ks) == TRUE

\* KeyboardState::is_idle, lines 144-146
KeyboardState_is_idle(ks) == ks.sustain_channels = {} /\ ks.pressed_keys = {}

\* mutant: a song begins with the keyboard state the last one ended with
KeyboardState_kept == keyboard_state

\* KeyboardState::new, lines 148-153
KeyboardState_new == [sustain_channels |-> {}, pressed_keys |-> {}]

\* mutant: the first event keeps the queue tick as its timestamp
FirstTimestampKept(first_event) == first_event.timestamp

\* record_song, line 58: first_event.timestamp = 0
FirstTimestamp(first_event) == 0

\* record_song, lines 98-110, and run_recorder line 20: the song is handed to
\* finish_recording (which sends RecordingDone to the coordinator); `start` and
\* `timeouts` are kept with it for the claims
FinishSong(reason, n) ==
    Append(songs, [events |-> events, reason |-> reason, start |-> start_tick,
                   timeouts |-> n])

\* run_recorder lines 13-18 and record_song lines 45-59: the first event of a
\* song arrives; start_recording is called and the song is begun
RecorderFirstEvent(payload, delta) ==
    /\ rec_pc = "first"
    /\ recorder_poll
    /\ delivered < MaxEvents
    /\ LET first_event == RecordEvent(queue_tick + delta, payload) IN
        /\ keyboard_state' = KeyboardState_update(KeyboardState_new, first_event.payload)
        /\ start_tick' = first_event.timestamp
        /\ events' = <<[first_event EXCEPT !.timestamp = FirstTimestamp(first_event)]>>
    /\ idle_periods' = 0
    /\ timeouts' = 0
    /\ queue_tick' = queue_tick + delta
    /\ delivered' = delivered + 1
    /\ rec_pc' = "song"
    /\ UNCHANGED <<recorder_poll, songs>>
    /\ AppSend(AppEvent("RecordingStart", None, None, FALSE))
    /\ UNCHANGED appstate
    /\ UNCHANGED <<mpvars, qvars, storevars, midivars>>

\* mutant: start_recording is signalled although the stream ended with no event
RecorderFirstNoneSignals ==
    /\ rec_pc = "first"
    /\ recorder_poll
    /\ recorder_poll' = FALSE
    /\ rec_pc' = "done"
    /\ AppSend(AppEvent("RecordingStart", None, None, FALSE))
    /\ UNCHANGED <<queue_tick, delivered, keyboard_state, idle_periods, start_tick,
                   events, songs, timeouts>>
    /\ UNCHANGED appstate
    /\ UNCHANGED <<mpvars, qvars, storevars, midivars>>

\* run_recorder lines 13 and 26-28: the stream ends while no song is recorded
RecorderFirstNone ==
    /\ rec_pc = "first"
    /\ recorder_poll
    /\ recorder_poll' = FALSE
    /\ rec_pc' = "done"
    /\ UNCHANGED <<queue_tick, delivered, keyboard_state, idle_periods, start_tick,
                   events, songs, timeouts>>
    /\ UNCHANGED <<mpvars, qvars, appvars, storevars, midivars>>

\* recorder.next() fails with a backend error (lines 13 and 65, `?`): the song
\* in progress, if any, is dropped and run_recorder returns the error
RecorderError ==
    /\ rec_pc \in {"first", "song"}
    /\ recorder_poll
    /\ rec_pc' = "failed"
    /\ events' = <<>>
    /\ UNCHANGED <<recorder_poll, queue_tick, delivered, keyboard_state, idle_periods,
                   start_tick, songs, timeouts>>
    /\ UNCHANGED <<mpvars, qvars, appvars, storevars, midivars>>

\* record_song lines 63-78: an event arrives within IDLE_TIMEOUT
SongEvent(payload, delta) ==
    /\ rec_pc = "song"
    /\ recorder_poll
    /\ delivered < MaxEvents
    /\ LET event == RecordEvent(queue_tick + delta, payload) IN
        /\ keyboard_state' = KeyboardState_update(keyboard_state, event.payload)
        /\ events' = Append(events,
              [event EXCEPT !.timestamp = WrappingSub(event.timestamp, start_tick)])
    /\ idle_periods' = 0
    /\ timeouts' = 0
    /\ queue_tick' = queue_tick + delta
    /\ delivered' = delivered + 1
    /\ UNCHANGED <<rec_pc, recorder_poll, start_tick, songs>>
    /\ UNCHANGED <<mpvars, qvars, appvars, storevars, midivars>>

\* mutant: the song cut by a Disconnect is thrown away
SongDisconnectDropsSong ==
    /\ rec_pc = "song"
    /\ recorder_poll
    /\ recorder_poll' = FALSE
    /\ events' = <<>>
    /\ rec_pc' = "done"
    /\ UNCHANGED <<queue_tick, delivered, keyboard_state, idle_periods, start_tick,
                   timeouts, songs>>
    /\ UNCHANGED <<mpvars, qvars, appvars, storevars, midivars>>

\* mutant: run_recorder goes on to the next song after a Disconnect
SongDisconnectGoesOn ==
    /\ rec_pc = "song"
    /\ recorder_poll
    /\ recorder_poll' = FALSE
    /\ songs' = FinishSong("Disconnect", timeouts)
    /\ events' = <<>>
    /\ rec_pc' = "first"
    /\ UNCHANGED <<queue_tick, delivered, keyboard_state, idle_periods, start_tick,
                   timeouts>>
    /\ AppSend(RecordingDone(events))
    /\ UNCHANGED appstate
    /\ UNCHANGED <<mpvars, qvars, storevars, midivars>>

\* record_song lines 79-81 and run_recorder lines 20-25: the stream ends within
\* a song: the song is handed over with reason Disconnect and run_recorder returns
SongDisconnect ==
    /\ rec_pc = "song"
    /\ recorder_poll
    /\ recorder_poll' = FALSE
    /\ songs' = FinishSong("Disconnect", timeouts)
    /\ events' = <<>>
    /\ rec_pc' = "done"
    /\ UNCHANGED <<queue_tick, delivered, keyboard_state, idle_periods, start_tick,
                   timeouts>>
    /\ AppSend(RecordingDone(events))
    /\ UNCHANGED appstate
    /\ UNCHANGED <<mpvars, qvars, storevars, midivars>>

\* record_song lines 83-85: IDLE_TIMEOUT elapsed and the keyboard is idle: the
\* song ends with reason Idle and run_recorder awaits the next song
SongTimeoutIdle ==
    /\ rec_pc = "song"
    /\ KeyboardState_is_idle(keyboard_state)
    /\ songs' = FinishSong("Idle", timeouts + 1)
    /\ events' = <<>>
    /\ timeouts' = timeouts + 1
    /\ rec_pc' = "first"
    /\ UNCHANGED <<recorder_poll, queue_tick, delivered, keyboard_state, idle_periods,
                   start_tick>>
    /\ AppSend(RecordingDone(events))
    /\ UNCHANGED appstate
    /\ UNCHANGED <<mpvars, qvars, storevars, midivars>>

\* record_song lines 86-93: IDLE_TIMEOUT elapsed while a key or the pedal is
\* held: count the period, and end the song at MAX_IDLE_PERIODS
SongTimeoutHeld ==
    /\ rec_pc = "song"
    /\ ~KeyboardState_is_idle(keyboard_state)
    /\ idle_periods' = idle_periods + 1
    /\ timeouts' = timeouts + 1
    /\ IF idle_periods + 1 >= MAX_IDLE_PERIODS
       THEN /\ songs' = FinishSong("Idle", timeouts + 1)
            /\ events' = <<>>
            /\ rec_pc' = "first"
            /\ AppSend(RecordingDone(events))
       ELSE UNCHANGED <<songs, events, rec_pc, app_rx>>
    /\ UNCHANGED <<recorder_poll, queue_tick, delivered, keyboard_state, start_tick>>
    /\ UNCHANGED appstate
    /\ UNCHANGED <<mpvars, qvars, storevars, midivars>>

RecInit ==
    /\ midi_players = [i \in Players |-> NoMidiPlayer]
    /\ QueueIdle
    /\ AppIdle
    /\ RecorderIdle
    /\ StoreIdle
    /\ MidiIdle

RecNext ==
    \/ \E payload \in Payloads, delta \in TickDeltas : RecorderFirstEvent(payload, delta)
    \/ RecorderFirstNone
    \/ RecorderError
    \/ \E payload \in Payloads, delta \in TickDeltas : SongEvent(payload, delta)
    \/ SongDisconnect
    \/ SongTimeoutIdle
    \/ SongTimeoutHeld

SpecRec == RecInit /\ [][RecNext]_vars

\* -------------------------------------------- alsa_backend.rs MidiRecorder
\* Option::<RecordEvent>::None, in the shape of a RecordEvent
NoRecordEvent ==
    [timestamp |-> 0,
     payload |-> [kind |-> "None", channel |-> 0, key |-> 0, value |-> 0]]

\* the closure MidiRecorder::next gives to EventsPoll::next (lines 334-385):
\* what one sequencer event adds to event_buffer: nothing, Some(RecordEvent)
\* or, for PortUnsubscribed, None
MidiRecorder_process(ev, tick) ==
    IF ev.type = "PortUnsubscribed"
    THEN <<NoRecordEvent>>
    ELSE [k \in 1..Len(MidiEvent(ev)) |-> RecordEvent(tick, MidiEvent(ev)[k])]

\* EventsPoll::next, lines 121-138, within MidiRecorder::next: the port is
\* readable and one more event is read and processed
EventsPollInput(ev, delta) ==
    /\ recorder_poll
    /\ Len(alsa_in) < MaxAlsaEvents
    /\ alsa_in' = Append(alsa_in, [event |-> ev, tick |-> (queue_tick + delta) % TickModulus])
    /\ event_buffer' = event_buffer \o MidiRecorder_process(ev, queue_tick + delta)
    /\ queue_tick' = queue_tick + delta
    /\ UNCHANGED <<rec_pc, recorder_poll, delivered, keyboard_state, idle_periods,
                   start_tick, events, songs, timeouts>>
    /\ UNCHANGED <<seq_input, yielded, registry, seq_clients, announce, active,
                   device_events, announced>>
    /\ UNCHANGED <<mpvars, qvars, appvars, storevars>>

\* MidiRecorder::next, lines 331-394: the buffered event is returned; on None
\* the EventsPoll (with whatever it still buffers) is dropped
MidiRecorder_next ==
    /\ recorder_poll
    /\ event_buffer # <<>>
    /\ yielded' = Append(yielded, Head(event_buffer))
    /\ IF Head(event_buffer) = NoRecordEvent
       THEN /\ recorder_poll' = FALSE
            /\ event_buffer' = <<>>
            /\ UNCHANGED delivered
       ELSE /\ event_buffer' = Tail(event_buffer)
            /\ delivered' = delivered + 1
            /\ UNCHANGED recorder_poll
    /\ UNCHANGED <<rec_pc, queue_tick, keyboard_state, idle_periods, start_tick,
                   events, songs, timeouts>>
    /\ UNCHANGED <<alsa_in, seq_input, registry, seq_clients, announce, active, device_events,
                   announced>>
    /\ UNCHANGED <<mpvars, qvars, appvars, storevars>>

MidiRecorderNext ==
    \/ \E ev \in AlsaEvents, delta \in TickDeltas : EventsPollInput(ev, delta)
    \/ MidiRecorder_next

\* a recorder right after MidiRecorder::new, and its caller's calls of next
SpecMidiRecorder == RecInit /\ [][MidiRecorderNext]_vars

\* ----------------------------- recorder.rs run_recorder on the MidiRecorder
\* the sequencer events of the sessions of SpecSegment: a key pressed and
\* released, an event the recorder does not record, the end of the subscription
SegmentEvents ==
    {e \in AlsaEvents : \/ e.type \in {"Noteoff", "Pitchbend", "PortUnsubscribed"}
                        \/ e.type = "Noteon" /\ e.value > 0}

\* the sequencer queues an event of the subscribed device at the recorder's
\* port, stamped with the queue's tick (MidiRecorder::new, lines 255-323:
\* subscription with queue timestamps)
Seq_deliver(ev, delta) ==
    /\ recorder_poll
    /\ Len(alsa_in) < MaxAlsaEvents
    /\ alsa_in' = Append(alsa_in, [event |-> ev, tick |-> (queue_tick + delta) % TickModulus])
    /\ seq_input' = Append(seq_input,
                           [event |-> ev, tick |-> (queue_tick + delta) % TickModulus])
    /\ queue_tick' = queue_tick + delta
    /\ UNCHANGED <<rec_pc, recorder_poll, delivered, keyboard_state, idle_periods,
                   start_tick, events, songs, timeouts>>
    /\ UNCHANGED <<event_buffer, yielded, registry, seq_clients, announce, active,
                   device_events, announced>>
    /\ UNCHANGED <<mpvars, qvars, appvars, storevars>>

RECURSIVE EventInputLoop(_)
\* EventsPoll::next, lines 119-139: event_input() until EAGAIN, each event
\* processed and the result, if any, pushed to the back of the buffer
EventInputLoop(input) ==
    IF input = <<>> THEN <<>>
    ELSE MidiRecorder_process(Head(input).event, Head(input).tick)
         \o EventInputLoop(Tail(input))

\* EventsPoll::next, lines 108-139, polled once: the buffer it pops from: what
\* is buffered, or else what it reads once the port is readable
PolledBuffer ==
    IF event_buffer # <<>> THEN event_buffer ELSE EventInputLoop(seq_input)

\* a poll of the pending recorder.next() can go on: an event is buffered or
\* the port is readable
NextCanPoll ==
    /\ rec_pc \in {"first", "song"}
    /\ recorder_poll
    /\ event_buffer # <<>> \/ seq_input # <<>>

\* mutant: a next() cancelled by the timeout takes the waiting input with it
CancelledNextDrains(input) == <<>>

\* record_song, line 63: tokio::time::timeout drops the pending next() at its
\* one await, poll_fd.readable() (alsa_backend.rs line 115), where it holds no
\* event: what waits at the port stays there
CancelledNext(input) == input

\* EventsPoll::next, lines 107-140: everything read was of a type the recorder
\* does not record; next() goes back to waiting
SegmentReadsNothing ==
    /\ NextCanPoll
    /\ PolledBuffer = <<>>
    /\ seq_input' = IF event_buffer # <<>> THEN seq_input ELSE <<>>
    /\ UNCHANGED <<alsa_in, event_buffer, yielded, registry, seq_clients, announce,
                   active, device_events, announced>>
    /\ UNCHANGED <<mpvars, qvars, appvars, recvars, storevars>>

\* run_recorder lines 13-18 and record_song lines 45-59 with the event
\* MidiRecorder::next returns: the first event of a song
SegmentFirstEvent ==
    /\ NextCanPoll
    /\ rec_pc = "first"
    /\ PolledBuffer # <<>>
    /\ Head(PolledBuffer) # NoRecordEvent
    /\ LET first_event == Head(PolledBuffer) IN
        /\ yielded' = Append(yielded, first_event)
        /\ keyboard_state' = KeyboardState_update(KeyboardState_new, first_event.payload)
        /\ start_tick' = first_event.timestamp
        /\ events' = <<[first_event EXCEPT !.timestamp = FirstTimestamp(first_event)]>>
    /\ event_buffer' = Tail(PolledBuffer)
    /\ seq_input' = IF event_buffer # <<>> THEN seq_input ELSE <<>>
    /\ idle_periods' = 0
    /\ timeouts' = 0
    /\ delivered' = delivered + 1
    /\ rec_pc' = "song"
    /\ UNCHANGED <<recorder_poll, songs, queue_tick>>
    /\ AppSend(AppEvent("RecordingStart", None, None, FALSE))
    /\ UNCHANGED appstate
    /\ UNCHANGED <<alsa_in, registry, seq_clients, announce, active, device_events,
                   announced>>
    /\ UNCHANGED <<mpvars, qvars, storevars>>

\* run_recorder lines 13 and 26-28 with the None MidiRecorder::next returns
\* (lines 387-389: the EventsPoll, its buffer and its client are dropped)
SegmentFirstNone ==
    /\ NextCanPoll
    /\ rec_pc = "first"
    /\ PolledBuffer # <<>>
    /\ Head(PolledBuffer) = NoRecordEvent
    /\ yielded' = Append(yielded, NoRecordEvent)
    /\ event_buffer' = <<>>
    /\ seq_input' = <<>>
    /\ recorder_poll' = FALSE
    /\ rec_pc' = "done"
    /\ UNCHANGED <<queue_tick, delivered, keyboard_state, idle_periods, start_tick,
                   events, songs, timeouts>>
    /\ UNCHANGED <<alsa_in, registry, seq_clients, announce, active, device_events,
                   announced>>
    /\ UNCHANGED <<mpvars, qvars, appvars, storevars>>

\* record_song lines 63-78 with the event MidiRecorder::next returns
SegmentSongEvent ==
    /\ NextCanPoll
    /\ rec_pc = "song"
    /\ PolledBuffer # <<>>
    /\ Head(PolledBuffer) # NoRecordEvent
    /\ LET event == Head(PolledBuffer) IN
        /\ yielded' = Append(yielded, event)
        /\ keyboard_state' = KeyboardState_update(keyboard_state, event.payload)
        /\ events' = Append(events,
              [event EXCEPT !.timestamp = WrappingSub(event.timestamp, start_tick)])
    /\ event_buffer' = Tail(PolledBuffer)
    /\ seq_input' = IF event_buffer # <<>> THEN seq_input ELSE <<>>
    /\ idle_periods' = 0
    /\ timeouts' = 0
    /\ delivered' = delivered + 1
    /\ UNCHANGED <<rec_pc, recorder_poll, start_tick, songs, queue_tick>>
    /\ UNCHANGED <<alsa_in, registry, seq_clients, announce, active, device_events,
                   announced>>
    /\ UNCHANGED <<mpvars, qvars, appvars, storevars>>

\* record_song lines 79-81 and run_recorder lines 20-25 with the None
\* MidiRecorder::next returns
SegmentDisconnect ==
    /\ NextCanPoll
    /\ rec_pc = "song"
    /\ PolledBuffer # <<>>
    /\ Head(PolledBuffer) = NoRecordEvent
    /\ yielded' = Append(yielded, NoRecordEvent)
    /\ event_buffer' = <<>>
    /\ seq_input' = <<>>
    /\ recorder_poll' = FALSE
    /\ songs' = FinishSong("Disconnect", timeouts)
    /\ events' = <<>>
    /\ rec_pc' = "done"
    /\ UNCHANGED <<queue_tick, delivered, keyboard_state, idle_periods, start_tick,
                   timeouts>>
    /\ AppSend(RecordingDone(events))
    /\ UNCHANGED appstate
    /\ UNCHANGED <<alsa_in, registry, seq_clients, announce, active, device_events,
                   announced>>
    /\ UNCHANGED <<mpvars, qvars, storevars>>

\* record_song lines 63 and 83-93: IDLE_TIMEOUT elapses while next() waits
\* for the port to become readable (the buffer is empty then; an event may
\* wait at the port, its readiness not yet seen): the call is dropped, and the
\* song ends if the keyboard is idle or at MAX_IDLE_PERIODS
SegmentTimeout ==
    /\ rec_pc = "song"
    /\ recorder_poll
    /\ event_buffer = <<>>
    /\ seq_input' = CancelledNext(seq_input)
    /\ timeouts' = timeouts + 1
    /\ IF KeyboardState_is_idle(keyboard_state)
       THEN /\ songs' = FinishSong("Idle", timeouts + 1)
            /\ events' = <<>>
            /\ rec_pc' = "first"
            /\ AppSend(RecordingDone(events))
            /\ UNCHANGED idle_periods
       ELSE /\ idle_periods' = idle_periods + 1
            /\ IF idle_periods + 1 >= MAX_IDLE_PERIODS
               THEN /\ songs' = FinishSong("Idle", timeouts + 1)
                    /\ events' = <<>>
                    /\ rec_pc' = "first"
                    /\ AppSend(RecordingDone(events))
               ELSE UNCHANGED <<songs, events, rec_pc, app_rx>>
    /\ UNCHANGED <<recorder_poll, queue_tick, delivered, keyboard_state, start_tick>>
    /\ UNCHANGED appstate
    /\ UNCHANGED <<alsa_in, event_buffer, yielded, registry, seq_clients, announce,
                   active, device_events, announced>>
    /\ UNCHANGED <<mpvars, qvars, storevars>>

SegmentNext ==
    \/ \E ev \in SegmentEvents, delta \in TickDeltas : Seq_deliver(ev, delta)
    \/ SegmentReadsNothing
    \/ SegmentFirstEvent
    \/ SegmentFirstNone
    \/ SegmentSongEvent
    \/ SegmentDisconnect
    \/ SegmentTimeout
    \/ RecorderError

\* run_recorder on a recorder right after MidiRecorder::new
SpecSegment == RecInit /\ [][SegmentNext]_vars

\* the steps of SpecTicks; the queue tick may have gone between two events
\* not at all, one tick, or nearly the whole range of the u32 (scaled to
\* TickModulus), so that the tick comes near its maximum and wraps
TicksNext ==
    \/ \E ev \in SegmentEvents, delta \in {0, 1, TickModulus - 2} : Seq_deliver(ev, delta)
    \/ SegmentReadsNothing
    \/ SegmentFirstEvent
    \/ SegmentFirstNone
    \/ SegmentSongEvent
    \/ SegmentDisconnect
    \/ SegmentTimeout
    \/ RecorderError

\* run_recorder on a recorder whose queue runs for a long time
SpecTicks == RecInit /\ [][TicksNext]_vars

\* ------------------------------- alsa_backend.rs MidiRegistry, DeviceListener
\* the client ids the sequencer hands out (it takes the lowest free one, so
\* the id of a closed client is given to a later one); each client of the
\* model has one port, and its id stands for the port's Addr
ClientIds == 1..3

\* the client DeviceListener::new makes for itself (line 156)
ListenerClient == 1

\* a client open at the sequencer with its port: whether it was made by
\* MidiRegistry::new_client, and whether the port is a readable MIDI port
\* (internal::is_port_readable_midi)
SeqClient(id, own, readable) == [id |-> id, own |-> own, readable |-> readable]

\* an announcement of the system client, or a pre-generated PortConnected
Announcement(type, addr) == [type |-> type, addr |-> addr]

\* a DeviceEvent returned by DeviceListener::next; `own` is not part of the
\* event: it records for the claims whether the client was one of the
\* program's own when the event was returned
DeviceEvent(type, addr, own) == [type |-> type, device |-> addr, own |-> own]

SeqClientIds == {c.id : c \in seq_clients}

\* Seq::open: the id the sequencer gives the next client
NextClientId ==
    CHOOSE i \in ClientIds \ SeqClientIds : \A j \in ClientIds \ SeqClientIds : i <= j

\* MidiRegistry::is_known_client, lines 60-63
is_known_client(client) == client \in registry

\* internal::is_port_readable_midi_addr, lines 608-615: false when the client
\* or the port is gone
is_port_readable_midi_addr(addr) ==
    \E c \in seq_clients : c.id = addr /\ c.readable

\* MidiRegistry::new_client (lines 40-58) and the port the new MidiRecorder
\* (WRITE, not readable) or MidiPlayer (READ | SUBS_READ, readable) creates on
\* it: the client is registered, then the port is announced
Client_new(readable) ==
    /\ announced < MaxClients
    /\ ClientIds \ SeqClientIds # {}
    /\ registry' = registry \cup {NextClientId}
    /\ seq_clients' = seq_clients \cup {SeqClient(NextClientId, TRUE, readable)}
    /\ announce' = Append(announce, Announcement("PortStart", NextClientId))
    /\ announced' = announced + 1
    /\ UNCHANGED <<alsa_in, seq_input, event_buffer, yielded, active, device_events>>
    /\ UNCHANGED <<mpvars, qvars, appvars, recvars, storevars>>

\* Drop for Client, lines 74-78: drop() takes the id out of the registry; the
\* fields, `seq` among them, are dropped after drop() has returned
Client_drop(id) ==
    /\ id \in registry
    /\ id # ListenerClient
    /\ registry' = registry \ {id}
    /\ UNCHANGED <<alsa_in, seq_input, event_buffer, yielded, seq_clients, announce, active,
                   device_events, announced>>
    /\ UNCHANGED <<mpvars, qvars, appvars, recvars, storevars>>

\* the `seq` field of a dropped Client is dropped: the sequencer closes the
\* client and announces the end of its port
Seq_close(id) ==
    /\ \E c \in seq_clients : c.id = id /\ c.own
    /\ ~is_known_client(id)
    /\ seq_clients' = {c \in seq_clients : c.id # id}
    /\ announce' = Append(announce, Announcement("PortExit", id))
    /\ UNCHANGED <<alsa_in, seq_input, event_buffer, yielded, registry, active, device_events,
                   announced>>
    /\ UNCHANGED <<mpvars, qvars, appvars, recvars, storevars>>

\* a device, or another program, opens a client with a port
DeviceAppears(readable) ==
    /\ announced < MaxClients
    /\ ClientIds \ SeqClientIds # {}
    /\ seq_clients' = seq_clients \cup {SeqClient(NextClientId, FALSE, readable)}
    /\ announce' = Append(announce, Announcement("PortStart", NextClientId))
    /\ announced' = announced + 1
    /\ UNCHANGED <<alsa_in, seq_input, event_buffer, yielded, registry, active, device_events>>
    /\ UNCHANGED <<mpvars, qvars, appvars, recvars, storevars>>

\* a device is unplugged or switched off
DeviceVanishes(id) ==
    /\ \E c \in seq_clients : c.id = id /\ ~c.own
    /\ seq_clients' = {c \in seq_clients : c.id # id}
    /\ announce' = Append(announce, Announcement("PortExit", id))
    /\ UNCHANGED <<alsa_in, seq_input, event_buffer, yielded, registry, active, device_events,
                   announced>>
    /\ UNCHANGED <<mpvars, qvars, appvars, recvars, storevars>>

\* mutant: every PortExit is passed on
IsActiveAlways(addr) == TRUE

\* DeviceListener::next, line 231: self.active.remove(&addr)
IsActive(addr) == addr \in active

\* DeviceListener::next, lines 195-245, one turn of its loop: the next
\* PortConnected / PortDisconnected is taken and either returned as a
\* DeviceEvent or skipped
DeviceListener_next ==
    /\ announce # <<>>
    /\ announce' = Tail(announce)
    /\ LET addr == Head(announce).addr IN
       IF Head(announce).type = "PortStart"
       THEN IF ~is_known_client(addr) /\ is_port_readable_midi_addr(addr)
            THEN /\ active' = active \cup {addr}
                 /\ device_events' = Append(device_events,
                       DeviceEvent("Connected", addr,
                                   \E c \in seq_clients : c.id = addr /\ c.own))
            ELSE UNCHANGED <<active, device_events>>
       ELSE IF IsActive(addr)
            THEN /\ active' = active \ {addr}
                 /\ device_events' = Append(device_events,
                                            DeviceEvent("Disconnected", addr, FALSE))
            ELSE UNCHANGED <<active, device_events>>
    /\ UNCHANGED <<alsa_in, seq_input, event_buffer, yielded, registry, seq_clients, announced>>
    /\ UNCHANGED <<mpvars, qvars, appvars, recvars, storevars>>

\* DeviceListener::new, lines 155-193: the listener's client is registered,
\* and a PortConnected is pre-generated for every readable MIDI port of a
\* client the registry does not know (here: the device with id 2, if it is
\* plugged in already). The listener subscribes to the announcements (line
\* 175) before it lists the ports (line 181): a device plugged in between
\* the two has its PortStart waiting at the sequencer behind the
\* pre-generated PortConnected of the event buffer
ListenerInit ==
    /\ midi_players = [i \in Players |-> NoMidiPlayer]
    /\ QueueIdle
    /\ AppIdle
    /\ RecorderIdle
    /\ StoreIdle
    /\ alsa_in = <<>>
    /\ seq_input = <<>>
    /\ event_buffer = <<>>
    /\ yielded = <<>>
    /\ registry = {ListenerClient}
    /\ \E plugged \in {"no", "before subscribe", "after subscribe"} :
          /\ seq_clients = {SeqClient(ListenerClient, TRUE, FALSE)}
                \cup (IF plugged # "no" THEN {SeqClient(2, FALSE, TRUE)} ELSE {})
          /\ announce =
                CASE plugged = "no" -> <<>>
                  [] plugged = "before subscribe" -> <<Announcement("PortStart", 2)>>
                  [] plugged = "after subscribe" ->
                        <<Announcement("PortStart", 2), Announcement("PortStart", 2)>>
    /\ active = {}
    /\ device_events = <<>>
    /\ announced = 0

ListenerNext ==
    \/ \E readable \in BOOLEAN : Client_new(readable)
    \/ \E id \in ClientIds : Client_drop(id)
    \/ \E id \in ClientIds : Seq_close(id)
    \/ \E readable \in BOOLEAN : DeviceAppears(readable)
    \/ \E id \in ClientIds : DeviceVanishes(id)
    \/ DeviceListener_next

SpecListener == ListenerInit /\ [][ListenerNext]_vars

\* ------------------------------------------------------------ app.rs App
\* App::play_recording, line 87
App_play_recording(recording) ==
    /\ requests < MaxRequests
    /\ AppSend(AppEvent("PlayerStart", recording, None, FALSE))
    /\ requests' = requests + 1
    /\ UNCHANGED <<midi_players, listening_device, player_current, player_queued,
                   player, changes, notifiers, recorder_task, connects>>
    /\ UNCHANGED <<qvars, recvars, storevars, midivars>>

\* App::stop_playing, line 92
App_stop_playing ==
    /\ requests < MaxRequests
    /\ AppSend(AppEvent("PlayerRequestStop", None, None, FALSE))
    /\ requests' = requests + 1
    /\ UNCHANGED <<midi_players, listening_device, player_current, player_queued,
                   player, changes, notifiers, recorder_task, connects>>
    /\ UNCHANGED <<qvars, recvars, storevars, midivars>>

\* midi_event_loop, lines 122-141: the listener reports a device; `matches` is
\* whether its client name contains config.midi_device
MidiEventLoopConnected(device, matches) ==
    /\ connects < MaxConnects
    /\ AppSend(AppEvent("DeviceConnected", None, device, matches))
    /\ connects' = connects + 1
    /\ UNCHANGED <<midi_players, listening_device, player_current, player_queued,
                   player, changes, notifiers, recorder_task, requests>>
    /\ UNCHANGED <<qvars, recvars, storevars, midivars>>

\* mutant: the task reports the shutdown without awaiting run_recorder
RecorderTaskExitEarly ==
    /\ recorder_task > 0
    /\ rec_pc \in {"first", "song", "done", "failed"}
    /\ AppSend(AppEvent("RecorderShutDown", None, None, FALSE))
    /\ recorder_task' = recorder_task - 1
    /\ UNCHANGED <<midi_players, listening_device, player_current, player_queued,
                   player, changes, notifiers, requests, connects>>
    /\ UNCHANGED <<qvars, recvars, storevars, midivars>>

\* mutant: the task reports the shutdown only when run_recorder returned Ok
RecorderTaskExitSilentOnError ==
    /\ recorder_task > 0
    /\ rec_pc \in {"done", "failed"}
    /\ rec_pc' = "none"
    /\ IF rec_pc = "done"
       THEN AppSend(AppEvent("RecorderShutDown", None, None, FALSE))
       ELSE UNCHANGED app_rx
    /\ recorder_task' = recorder_task - 1
    /\ UNCHANGED <<midi_players, listening_device, player_current, player_queued,
                   player, changes, notifiers, requests, connects>>
    /\ UNCHANGED <<recorder_poll, queue_tick, delivered, keyboard_state, idle_periods,
                   start_tick, events, songs, timeouts>>
    /\ UNCHANGED <<qvars, storevars, midivars>>

\* the task of handle_new_device, lines 390-401: run_recorder returned
RecorderTaskExit ==
    /\ recorder_task > 0
    /\ rec_pc \in {"done", "failed"}
    /\ rec_pc' = "none"
    /\ AppSend(AppEvent("RecorderShutDown", None, None, FALSE))
    /\ recorder_task' = recorder_task - 1
    /\ UNCHANGED <<midi_players, listening_device, player_current, player_queued,
                   player, changes, notifiers, requests, connects>>
    /\ UNCHANGED <<recorder_poll, queue_tick, delivered, keyboard_state, idle_periods,
                   start_tick, events, songs, timeouts>>
    /\ UNCHANGED <<qvars, storevars, midivars>>

\* the task of play_recording, lines 289-295: `notifier` resolved
PlayerNotifier(p) ==
    /\ notifiers[p] = "waiting"
    /\ Completed(p)
    /\ AppSend(AppEvent("PlayerStopped", None, None, FALSE))
    /\ notifiers' = [notifiers EXCEPT ![p] = "sent"]
    /\ UNCHANGED <<midi_players, listening_device, player_current, player_queued,
                   player, changes, recorder_task, requests, connects>>
    /\ UNCHANGED <<qvars, recvars, storevars, midivars>>

\* app_event_loop: rx.recv() yields an event of type t
Received(t) ==
    /\ app_rx # <<>>
    /\ Head(app_rx).type = t
    /\ app_rx' = Tail(app_rx)

\* mutant: every client name matches
DeviceMatchesAlways(evt) == TRUE

\* handle_new_device, line 369: the client name contains config.midi_device
DeviceMatches(evt) == evt.matches

\* mutant: a device being listened to does not stop a new one
NotYetListeningAlways(dev) == TRUE

\* handle_new_device, line 370: no device is listened to yet
NotYetListening(dev) == dev = None

\* handle_new_device, lines 380-402: matching device, none listened to, and
\* create_recorder succeeded: a new Recorder (its queue starts at tick 0) is
\* handed to a new run_recorder task
HandleDeviceConnectedListen ==
    /\ Received("DeviceConnected")
    /\ DeviceMatches(Head(app_rx))
    /\ NotYetListening(listening_device)
    /\ listening_device' = Head(app_rx).device
    /\ changes' = Append(changes, StateChange("ListenBegin", None, None))
    /\ recorder_task' = recorder_task + 1
    /\ UNCHANGED <<midi_players, player_current, player_queued, player, notifiers,
                   requests, connects>>
    /\ rec_pc' = "first"
    /\ recorder_poll' = TRUE
    /\ queue_tick' = 0
    /\ keyboard_state' = KeyboardState_new
    /\ idle_periods' = 0
    /\ start_tick' = 0
    /\ events' = <<>>
    /\ timeouts' = 0
    /\ UNCHANGED <<delivered, songs>>
    /\ UNCHANGED <<qvars, storevars, midivars>>

\* handle_new_device: no match (line 408), already listening (line 370), or
\* create_recorder failed (line 403): nothing changes
HandleDeviceConnectedIgnored ==
    /\ Received("DeviceConnected")
    /\ UNCHANGED <<midi_players, listening_device, player_current, player_queued,
                   player, changes, notifiers, recorder_task, requests, connects>>
    /\ UNCHANGED <<qvars, recvars, storevars, midivars>>

\* app_event_loop, lines 157-161
HandleRecorderShutDown ==
    /\ Received("RecorderShutDown")
    /\ listening_device' = None
    /\ changes' = Append(changes, StateChange("ListenEnd", None, None))
    /\ UNCHANGED <<midi_players, player_current, player_queued, player, notifiers,
                   recorder_task, requests, connects>>
    /\ UNCHANGED <<qvars, recvars, storevars, midivars>>

\* mutant: play_recording does not look at the device
PlayRecordingAnyOutput(device) == TRUE

\* play_recording, line 281: `if let Some(output) = device`
PlayRecordingHasOutput(device) == device # None

\* play_recording, lines 281-296, the Ok path, and the Ok arm of the caller:
\* the store has the recording, its file opens, the helper is spawned; the
\* handle replaces state.player (dropping, so cancelling, the one held)
PlayRecordingOk(recording) ==
    /\ PlayRecordingHasOutput(listening_device)
    /\ NextPlayer <= MaxPlayers
    /\ LET p == NextPlayer IN
        /\ midi_players' = MidiPlayer_new(MidiPlayer_stop(midi_players, player), p)
        /\ notifiers' = [notifiers EXCEPT ![p] = "waiting"]
        /\ changes' = Append(changes, StateChange("PlayBegin", recording, p))
        /\ player' = p
        /\ player_current' = recording

\* play_recording failed (no device, unknown recording, unreadable file, spawn
\* error) and the Err arm of the caller: only PlayError is published
PlayRecordingErr ==
    /\ changes' = Append(changes, StateChange("PlayError", None, None))
    /\ UNCHANGED <<midi_players, notifiers, player, player_current>>

\* app_event_loop, lines 191-194: a player is held: stop it, queue the request
HandlePlayerStartQueued ==
    /\ Received("PlayerStart")
    /\ player # None
    /\ midi_players' = MidiPlayer_stop(midi_players, player)
    /\ player_queued' = Head(app_rx).recording
    /\ UNCHANGED <<listening_device, player_current, player, changes, notifiers,
                   recorder_task, requests, connects>>
    /\ UNCHANGED <<qvars, recvars, storevars, midivars>>

\* app_event_loop, lines 195-209
HandlePlayerStartOk ==
    /\ Received("PlayerStart")
    /\ player = None
    /\ PlayRecordingOk(Head(app_rx).recording)
    /\ UNCHANGED <<listening_device, player_queued, recorder_task, requests, connects>>
    /\ UNCHANGED <<qvars, recvars, storevars, midivars>>

\* app_event_loop, lines 195-200 and 210-215
HandlePlayerStartErr ==
    /\ Received("PlayerStart")
    /\ player = None
    /\ PlayRecordingErr
    /\ UNCHANGED <<listening_device, player_queued, recorder_task, requests, connects>>
    /\ UNCHANGED <<qvars, recvars, storevars, midivars>>

\* app_event_loop, lines 218-223
HandlePlayerRequestStop ==
    /\ Received("PlayerRequestStop")
    /\ midi_players' = MidiPlayer_stop(midi_players, player)
    /\ UNCHANGED <<listening_device, player_current, player_queued, player, changes,
                   notifiers, recorder_task, requests, connects>>
    /\ UNCHANGED <<qvars, recvars, storevars, midivars>>

\* app_event_loop, lines 224-243: a request was queued and could be started
HandlePlayerStoppedOk ==
    /\ Received("PlayerStopped")
    /\ player_queued # None
    /\ player_queued' = None
    /\ PlayRecordingOk(player_queued)
    /\ UNCHANGED <<listening_device, recorder_task, requests, connects>>
    /\ UNCHANGED <<qvars, recvars, storevars, midivars>>

\* app_event_loop, lines 224-234 and 244-249: the queued request failed to start
HandlePlayerStoppedErr ==
    /\ Received("PlayerStopped")
    /\ player_queued # None
    /\ player_queued' = None
    /\ PlayRecordingErr
    /\ UNCHANGED <<listening_device, recorder_task, requests, connects>>
    /\ UNCHANGED <<qvars, recvars, storevars, midivars>>

\* app_event_loop, lines 251-256: nothing queued
HandlePlayerStoppedEnd ==
    /\ Received("PlayerStopped")
    /\ player_queued = None
    /\ player_current' = None
    /\ player' = None
    /\ midi_players' = MidiPlayer_stop(midi_players, player)
    /\ changes' = Append(changes, StateChange("PlayEnd", None, player))
    /\ UNCHANGED <<listening_device, player_queued, notifiers, recorder_task,
                   requests, connects>>
    /\ UNCHANGED <<qvars, recvars, storevars, midivars>>

AppInit ==
    /\ midi_players = [i \in Players |-> NoMidiPlayer]
    /\ QueueIdle
    /\ AppIdle
    /\ RecorderNone
    /\ StoreIdle
    /\ MidiIdle

AppNext ==
    \/ \E r \in RecordingIds : App_play_recording(r)
    \/ App_stop_playing
    \/ \E d \in Devices, m \in BOOLEAN : MidiEventLoopConnected(d, m)
    \/ RecorderFirstNone
    \/ RecorderError
    \/ RecorderTaskExit
    \/ \E p \in Players : PlayerNotifier(p)
    \/ HandleDeviceConnectedListen
    \/ HandleDeviceConnectedIgnored
    \/ HandleRecorderShutDown
    \/ HandlePlayerStartQueued
    \/ HandlePlayerStartOk
    \/ HandlePlayerStartErr
    \/ HandlePlayerRequestStop
    \/ HandlePlayerStoppedOk
    \/ HandlePlayerStoppedErr
    \/ HandlePlayerStoppedEnd
    \/ \E i \in Players : ProcExit(i) /\ UNCHANGED <<qvars, appvars, recvars, storevars, midivars>>
    \/ \E i \in Players : SupervisorExited(i) /\ UNCHANGED <<qvars, appvars, recvars, storevars, midivars>>
    \/ \E i \in Players : SupervisorCancelled(i) /\ UNCHANGED <<qvars, appvars, recvars, storevars, midivars>>
    \/ \E i \in Players : ResetOutput(i) /\ UNCHANGED <<qvars, appvars, recvars, storevars, midivars>>
    \/ \E i \in Players : ResetExit(i) /\ UNCHANGED <<qvars, appvars, recvars, storevars, midivars>>

SpecApp == AppInit /\ [][AppNext]_vars

\* ------------------------------------------- app.rs, recordings of a session
\* the file name chrono::Local::now() gives a finished song (line 166): a
\* timestamp, later than the legacy files' and than every song handled before
SongFileName ==
    11 + Cardinality({k \in 1..Len(changes) :
                         changes[k].type \in {"RecordEnd", "RecordError"}})

\* the midly kind store_recording gives an event, lines 318-348
TrackEventKind(payload) ==
    CASE payload.kind = "NoteOn" -> "NoteOn"
      [] payload.kind = "NoteOff" -> "NoteOff"
      [] payload.kind = "ControlChange" -> "Controller"

\* store_recording, lines 305-355: one track event per recorded event, with the
\* difference to the previous timestamp as delta, then EndOfTrack
store_recording(evs) ==
    Smf(<< [k \in 1..Len(evs) |->
               TrackEvent(WrappingSub(evs[k].timestamp,
                                      IF k = 1 THEN evs[1].timestamp
                                               ELSE evs[k - 1].timestamp),
                          TrackEventKind(evs[k].payload))]
           \o <<TrackEvent(0, "EndOfTrack")>> >>)

\* store_recording, line 357: smf.save(filepath) creates or overwrites the file
SavedFile(name, smf) ==
    {f \in data_directory : f.filename # name} \cup {[filename |-> name, smf |-> smf]}

\* app_event_loop, lines 162-164
HandleRecordingStart ==
    /\ Received("RecordingStart")
    /\ changes' = Append(changes, StateChange("RecordBegin", None, None))
    /\ UNCHANGED <<midi_players, listening_device, player_current, player_queued,
                   player, notifiers, recorder_task, requests, connects>>
    /\ UNCHANGED <<qvars, recvars, storevars, midivars>>

\* mutant: the row is written although the song is reported as failed
RecordErrorKeepsRow(smf) == recordings \cup {InsertedRow(smf)}

\* app_event_loop, lines 179-184: a failed insert leaves no row
RecordErrorRows(smf) == recordings

\* app_event_loop, lines 165-178: the song is saved and registered in the
\* store; RecordEnd carries the new recording
HandleRecordingDoneOk ==
    /\ Received("RecordingDone")
    /\ LET smf == store_recording(Head(app_rx).events) IN
        /\ data_directory' = SavedFile(SongFileName, smf)
        /\ recordings' = recordings \cup {InsertedRow(smf)}
        /\ store_log' = Append(store_log, StoreCall("insert", NextRowId, TRUE))
        /\ changes' = Append(changes, StateChange("RecordEnd", NextRowId, None))
    /\ UNCHANGED <<midi_players, listening_device, player_current, player_queued,
                   player, notifiers, recorder_task, requests, connects>>
    /\ UNCHANGED <<store_pc, migrations, backups>>
    /\ UNCHANGED <<qvars, recvars, midivars>>

\* app_event_loop, lines 167-173: store_recording fails; RecordError, and the
\* loop goes on with the next event
HandleRecordingDoneSaveErr ==
    /\ Received("RecordingDone")
    /\ changes' = Append(changes, StateChange("RecordError", None, None))
    /\ UNCHANGED <<midi_players, listening_device, player_current, player_queued,
                   player, notifiers, recorder_task, requests, connects>>
    /\ UNCHANGED <<qvars, recvars, storevars, midivars>>

\* app_event_loop, lines 174-184: the file is saved but insert_recording
\* fails; RecordError
HandleRecordingDoneInsertErr ==
    /\ Received("RecordingDone")
    /\ LET smf == store_recording(Head(app_rx).events) IN
        /\ data_directory' = SavedFile(SongFileName, smf)
        /\ recordings' = RecordErrorRows(smf)
        /\ store_log' = Append(store_log, StoreCall("insert", None, FALSE))
    /\ changes' = Append(changes, StateChange("RecordError", None, None))
    /\ UNCHANGED <<midi_players, listening_device, player_current, player_queued,
                   player, notifiers, recorder_task, requests, connects>>
    /\ UNCHANGED <<store_pc, migrations, backups>>
    /\ UNCHANGED <<qvars, recvars, midivars>>

\* the events played in the sessions of SpecListen: a key pressed and released
SessionPayloads == {p \in Payloads : p.kind \in {"NoteOn", "NoteOff"}}
SessionTickDeltas == {1}

ListenInit ==
    /\ midi_players = [i \in Players |-> NoMidiPlayer]
    /\ QueueIdle
    /\ AppIdle
    /\ RecorderNone
    /\ StoreIdle
    /\ MidiIdle

\* the coordinator with its device listener and its recorder task; no playback
ListenNext ==
    \/ \E d \in Devices, m \in BOOLEAN : MidiEventLoopConnected(d, m)
    \/ HandleDeviceConnectedListen
    \/ HandleDeviceConnectedIgnored
    \/ \E payload \in SessionPayloads, delta \in SessionTickDeltas : RecorderFirstEvent(payload, delta)
    \/ RecorderFirstNone
    \/ RecorderError
    \/ \E payload \in SessionPayloads, delta \in SessionTickDeltas : SongEvent(payload, delta)
    \/ SongDisconnect
    \/ SongTimeoutIdle
    \/ SongTimeoutHeld
    \/ RecorderTaskExit
    \/ HandleRecorderShutDown
    \/ HandleRecordingStart
    \/ HandleRecordingDoneOk
    \/ HandleRecordingDoneSaveErr
    \/ HandleRecordingDoneInsertErr

SpecListen == ListenInit /\ [][ListenNext]_vars

\* app_event_loop: one turn of the loop, whatever the event
ListenLoop ==
    \/ HandleDeviceConnectedListen
    \/ HandleDeviceConnectedIgnored
    \/ HandleRecorderShutDown
    \/ HandleRecordingStart
    \/ HandleRecordingDoneOk
    \/ HandleRecordingDoneSaveErr
    \/ HandleRecordingDoneInsertErr

\* the runtime keeps running the spawned tasks: the recorder task gets to send
\* its RecorderShutDown, and the event loop gets to take the next event
SpecListenFair ==
    /\ SpecListen
    /\ WF_vars(RecorderTaskExit)
    /\ WF_vars(ListenLoop)

\* ------------------------------------------------------ claims on the coordinator
PlayChanges == SelectSeq(changes, LAMBDA c : c.type \in {"PlayBegin", "PlayEnd"})
CountChanges(t) == Cardinality({k \in 1..Len(changes) : changes[k].type = t})

\* C2 (as claimed): on the StateChange topic PlayBegin and PlayEnd alternate,
\* starting with PlayBegin: each PlayEnd follows the PlayBegin of the playback it
\* ends, and a PlayBegin that follows another playback comes only after that
\* playback's PlayEnd (so preemption shows PlayBegin(A), PlayEnd(A), PlayBegin(B)).
C2_PlayEndBeforeNextBegin ==
    \A k \in 1..Len(PlayChanges) :
        IF k % 2 = 1
        THEN PlayChanges[k].type = "PlayBegin"
        ELSE PlayChanges[k].type = "PlayEnd"

\* the playback part of the coordinator is idle: no handle, nothing queued, no
\* helper or supervisor running, no notifier pending, no play event in the channel
AppPlaybackIdle ==
    /\ player = None
    /\ player_queued = None
    /\ \A p \in Players : midi_players[p].sup \in {"none", "done"}
    /\ \A p \in Players : notifiers[p] # "waiting"
    /\ \A k \in 1..Len(app_rx) :
         app_rx[k].type \notin {"PlayerStart", "PlayerStopped", "PlayerRequestStop"}

\* C3 (as claimed): once playback is idle, as many PlayEnd as PlayBegin events
\* have been published
C3_BeginsEqualEndsWhenIdle ==
    AppPlaybackIdle => CountChanges("PlayBegin") = CountChanges("PlayEnd")

\* C7 (as claimed): the handle and the token are set or cleared together, and
\* right after a failed spawn (PlayError is the last change) both are cleared
C7_PlaybackStateConsistent ==
    /\ (player = None) <=> (player_current = None)
    /\ (changes # <<>> /\ changes[Len(changes)].type = "PlayError")
          => (player = None /\ player_current = None)

\* C8 (as claimed): handling a PlayerStart while no device is listened to
\* spawns no helper, publishes no PlayBegin and leaves player, player_current
\* and player_queued as they were
C8_NoDeviceNoChange ==
    [][(Received("PlayerStart") /\ listening_device = None)
        => /\ NextPlayer' = NextPlayer
           /\ CountChanges("PlayBegin")' = CountChanges("PlayBegin")
           /\ UNCHANGED <<player, player_current, player_queued>>]_vars

\* C8 (amended): handling a PlayerStart while no device is listened to spawns no
\* helper and publishes no PlayBegin. If no player handle is held the request
\* fails at once: PlayError is published and player, player_current and
\* player_queued stay as they were. If a handle is held the request cancels that
\* player and is stored in player_queued (the device is looked at only when
\* PlayerStopped is handled).
C8_NoDeviceFailsUnlessQueued ==
    [][(Received("PlayerStart") /\ listening_device = None)
        => /\ NextPlayer' = NextPlayer
           /\ CountChanges("PlayBegin")' = CountChanges("PlayBegin")
           /\ IF player = None
              THEN /\ changes' = Append(changes, StateChange("PlayError", None, None))
                   /\ UNCHANGED <<player, player_current, player_queued, midi_players>>
              ELSE /\ player_queued' = Head(app_rx).recording
                   /\ midi_players'[player].cancelled
                   /\ UNCHANGED <<player, player_current, changes>>]_vars

\* C8 witness: a play request was handled and failed before any device was ever
\* listened to
C8_Witness ==
    /\ changes = <<StateChange("PlayError", None, None)>>
    /\ listening_device = None
    /\ requests > 0
    /\ app_rx = <<>>

\* At most one helper started by the coordinator is alive, and whenever a later
\* player exists every earlier one has ended and its notifier has sent
\* PlayerStopped (the coordinator's side of C4)
AppAtMostOnePlayback ==
    /\ Cardinality({p \in Players : midi_players[p].proc = "alive"}) <= 1
    /\ \A p1, p2 \in Players :
         (p1 < p2 /\ midi_players[p2].sup # "none")
            => (Ended(p1) /\ notifiers[p1] = "sent")

\* ----------------------------------------------- claims on device sessions
SessionChanges ==
    SelectSeq(changes, LAMBDA c : c.type \in {"ListenBegin", "ListenEnd", "RecordBegin",
                                              "RecordEnd", "RecordError"})

\* the events of one type waiting in the coordinator's channel
Pending(t) == {k \in 1..Len(app_rx) : app_rx[k].type = t}

\* C12: as long as the recorder has delivered no event, there is no
\* record_started and no record_finished: no RecordBegin, RecordEnd or
\* RecordError is published or under way, no song and no recording exists; and
\* record_started is never signalled more often than first events have arrived
C12_NoEventsNoRecording ==
    /\ delivered = 0 =>
          /\ \A k \in 1..Len(changes) :
                changes[k].type \notin {"RecordBegin", "RecordEnd", "RecordError"}
          /\ Pending("RecordingStart") = {} /\ Pending("RecordingDone") = {}
          /\ songs = <<>>
          /\ recordings = {}
    /\ CountChanges("RecordBegin") + Cardinality(Pending("RecordingStart")) <= delivered

\* two whole sessions have run without any event
C12_Witness ==
    /\ delivered = 0
    /\ CountChanges("ListenBegin") = 2
    /\ CountChanges("ListenEnd") = 2

HandlesDeviceConnected ==
    /\ app_rx # <<>>
    /\ Head(app_rx).type = "DeviceConnected"
    /\ app_rx' = Tail(app_rx)

\* C14: handling a matching DeviceConnected while a device is listened to
\* changes nothing (no recorder, no task, listening_device and the topic as
\* they were), and there is never more than one recorder task
C14_ConnectWhileListening ==
    /\ [](recorder_task <= 1)
    /\ [][(HandlesDeviceConnected /\ Head(app_rx).matches /\ listening_device # None)
            => UNCHANGED <<listening_device, changes, recorder_task, recvars,
                           player, player_current, player_queued, storevars, midivars>>]_vars

\* a matching DeviceConnected is about to be handled while a recorder runs
C14_Witness ==
    /\ app_rx # <<>>
    /\ Head(app_rx).type = "DeviceConnected"
    /\ Head(app_rx).matches
    /\ listening_device # None
    /\ recorder_task = 1
    /\ rec_pc = "song"

\* C15: handling a DeviceConnected whose client name does not match has no
\* side effect: listening_device, the recorder, the tasks and the topic are
\* unchanged
C15_NoMatchNoEffect ==
    [][(HandlesDeviceConnected /\ ~Head(app_rx).matches)
          => UNCHANGED <<listening_device, changes, recorder_task, recvars,
                         player, player_current, player_queued, notifiers,
                         storevars, midivars>>]_vars

\* a non-matching DeviceConnected is about to be handled while no device is
\* listened to
C15_Witness ==
    /\ app_rx # <<>>
    /\ Head(app_rx).type = "DeviceConnected"
    /\ ~Head(app_rx).matches
    /\ listening_device = None
    /\ connects = 1

\* C16: ListenEnd is published exactly once per ListenBegin, at which point
\* listening_device is cleared, and it does come once the session's task has
\* left run_recorder, whatever the way (Ok or Err); a DeviceConnected that
\* starts no task (the Recorder could not be made) leaves listening_device and
\* the topic alone
C16_ListenEndOncePerSession ==
    /\ [](CountChanges("ListenBegin") - CountChanges("ListenEnd")
            = IF listening_device = None THEN 0 ELSE 1)
    /\ [][(HandlesDeviceConnected /\ recorder_task' = recorder_task)
            => UNCHANGED <<listening_device, changes>>]_vars
    /\ \A k \in 1..MaxConnects :
          (rec_pc \in {"done", "failed"} /\ CountChanges("ListenBegin") = k)
             ~> (CountChanges("ListenEnd") = k /\ listening_device = None)

\* a session ended by a backend error and one ended by the stream's end have
\* both been closed by a ListenEnd
C16_Witness ==
    /\ CountChanges("ListenBegin") = 2
    /\ CountChanges("ListenEnd") = 2
    /\ listening_device = None
    /\ Len(songs) = 1
    /\ CountChanges("RecordBegin") = 2

\* C17: every song handed to the coordinator gets exactly one of RecordEnd or
\* RecordError once handled; the recordings of the store are exactly those
\* announced by a RecordEnd, so a song reported by RecordError has no row
C17_OneOutcomePerSong ==
    /\ CountChanges("RecordEnd") + CountChanges("RecordError")
          + Cardinality(Pending("RecordingDone")) = Len(songs)
    /\ RowIds = {changes[k].recording :
                    k \in {j \in 1..Len(changes) : changes[j].type = "RecordEnd"}}
    /\ Cardinality(recordings) = CountChanges("RecordEnd")

\* a song failed with RecordError and left no row; the coordinator went on and
\* stored the next song
C17_Witness ==
    LET sc == SessionChanges IN
    /\ \E i, j \in 1..Len(sc) :
          i < j /\ sc[i].type = "RecordError" /\ sc[j].type = "RecordEnd"
    /\ Cardinality(recordings) = 1
    /\ Len(songs) = 2

\* ------------------------------------------------------- claims on the segmenter
\* the keys whose last note event in evs is a NoteOn
HeldKeys(evs) ==
    { <<evs[i].payload.channel, evs[i].payload.key>> : i \in
        { i \in 1..Len(evs) :
            /\ evs[i].payload.kind = "NoteOn"
            /\ \A j \in (i + 1)..Len(evs) :
                 ~ /\ evs[j].payload.kind = "NoteOff"
                   /\ evs[j].payload.channel = evs[i].payload.channel
                   /\ evs[j].payload.key = evs[i].payload.key } }

\* the channels whose last controller-64 event in evs has a value of 64 or more
SustainedChannels(evs) ==
    { evs[i].payload.channel : i \in
        { i \in 1..Len(evs) :
            /\ evs[i].payload.kind = "ControlChange"
            /\ evs[i].payload.key = 64
            /\ evs[i].payload.value >= 64
            /\ \A j \in (i + 1)..Len(evs) :
                 ~ /\ evs[j].payload.kind = "ControlChange"
                   /\ evs[j].payload.key = 64
                   /\ evs[j].payload.channel = evs[i].payload.channel } }

NothingHeld(evs) == HeldKeys(evs) = {} /\ SustainedChannels(evs) = {}

\* C9: every song handed over by the segmenter is non-empty, starts at
\* timestamp 0 and has non-decreasing timestamps
C9_SongTimestamps ==
    \A n \in 1..Len(songs) :
        LET S == songs[n].events IN
        /\ Len(S) >= 1
        /\ S[1].timestamp = 0
        /\ \A i \in 1..(Len(S) - 1) : S[i].timestamp <= S[i + 1].timestamp

\* C9 witness: a song whose first event had a non-zero queue tick and whose
\* second event came at a later tick
C9_Witness ==
    \E n \in 1..Len(songs) :
        /\ songs[n].start > 0
        /\ Len(songs[n].events) >= 2
        /\ songs[n].events[2].timestamp > 0

\* C10: a song that ended with reason Idle ended at a timeout at which nothing
\* was held, or at the MAX_IDLE_PERIODS-th consecutive timeout since its last
\* event; while a song goes on, idle_periods counts exactly the timeouts since
\* its last event (so every event resets it to 0), it stays below
\* MAX_IDLE_PERIODS, and a timeout has been survived only with something held.
C10_IdleCut ==
    /\ \A n \in 1..Len(songs) :
         songs[n].reason = "Idle"
            => \/ NothingHeld(songs[n].events) /\ songs[n].timeouts = 1
               \/ ~NothingHeld(songs[n].events) /\ songs[n].timeouts = MAX_IDLE_PERIODS
    /\ rec_pc = "song"
         => /\ idle_periods = timeouts
            /\ idle_periods < MAX_IDLE_PERIODS
            /\ timeouts > 0 => ~NothingHeld(events)

\* C10 witness: a song with a key or the pedal held that was ended by the
\* MAX_IDLE_PERIODS-th timeout in a row
C10_Witness ==
    \E n \in 1..Len(songs) :
        /\ songs[n].reason = "Idle"
        /\ ~NothingHeld(songs[n].events)
        /\ songs[n].timeouts = MAX_IDLE_PERIODS

\* the songs made of a single event that ended by a timeout
SingleEventSongs == {n \in 1..Len(songs) : /\ Len(songs[n].events) = 1
                                           /\ songs[n].reason = "Idle"}

\* C11 (as stated): a song of exactly one event of any kind, followed by
\* silence, holds that event with timestamp 0 and is produced at the first
\* 5-second timeout
C11_SingleEventAtFirstTimeout ==
    \A n \in SingleEventSongs :
        /\ songs[n].events[1].timestamp = 0
        /\ songs[n].timeouts = 1

\* C11 (amended): a song of exactly one event followed by silence holds that
\* event, payload untouched, with timestamp 0; it is produced at the first
\* timeout when the event leaves no key and no pedal held, and at the
\* MAX_IDLE_PERIODS-th timeout when the event is a NoteOn or a sustain-on
C11_SingleEventSong ==
    \A n \in SingleEventSongs :
        LET ev == songs[n].events[1] IN
        /\ ev.timestamp = 0
        /\ ev.payload \in Payloads
        /\ songs[n].timeouts =
              IF \/ ev.payload.kind = "NoteOn"
                 \/ /\ ev.payload.kind = "ControlChange"
                    /\ ev.payload.key = 64
                    /\ ev.payload.value >= 64
              THEN MAX_IDLE_PERIODS
              ELSE 1

\* a single NoteOn arrived at a non-zero queue tick, then nothing: the song was
\* produced only at the MAX_IDLE_PERIODS-th timeout
C11_Witness ==
    \E n \in SingleEventSongs :
        /\ songs[n].events[1].payload.kind = "NoteOn"
        /\ songs[n].start > 0
        /\ songs[n].timeouts = MAX_IDLE_PERIODS

\* --------------------------------------------------------- claims on the store
\* the positions of the successful calls of one kind in the log
Calls(op) == {k \in 1..Len(store_log) : store_log[k].op = op /\ store_log[k].ok}

\* C18: every insert returns an id strictly greater than the id returned by
\* every earlier insert, including ids of recordings deleted since
C18_IdsMonotone ==
    \A i, j \in Calls("insert") :
        i < j => store_log[i].id < store_log[j].id

\* C19: once delete_recording_by_id(id) has succeeded, every later
\* get_recording_info_by_id(id) and get_recording_midi(id) fails
C19_DeleteTerminal ==
    \A i \in Calls("delete") :
        \A j \in Calls("get_info") \cup Calls("get_midi") :
            i < j => store_log[j].id # store_log[i].id

\* C20: for every recording of the store, inserted or migrated, length_seconds
\* is the sum of the deltas of the first track of its stored MIDI divided by
\* 192, to the microsecond the Duration is kept in
C20_LengthIsTicksOver192 ==
    \A r \in recordings :
        DbVersion = LATEST_VERSION =>
            LET midi == decompress_midi(r.midi)
                ticks == IF midi.tracks = <<>> THEN 0 ELSE SumDeltas(midi.tracks[1])
            IN  r.length_seconds.num = ((ticks * 1000000) \div 192) * r.length_seconds.den

\* C21: a directory without a database and with one legacy file, once the
\* first startup has migrated it to the latest version, holds one recording
\* whose length_seconds is the file's ticks over 192, whose note_count is the
\* file's NoteOn count and whose stored MIDI begins with the Tempo event
C21_LegacyFileMigrated ==
    (store_log = <<OpenReturned(LATEST_VERSION, TRUE)>> /\ Cardinality(data_directory) = 1)
        => LET file == CHOOSE f \in data_directory : TRUE
               track == file.smf.tracks[1]
           IN  \E r \in recordings :
                 /\ recordings = {r}
                 /\ r.length_seconds.num * 192
                       = SumDeltas(track) * 1000000 * r.length_seconds.den
                 /\ r.note_count
                       = Cardinality({k \in 1..Len(track) : track[k].kind = "NoteOn"})
                 /\ decompress_midi(r.midi).tracks[1][1] = TrackEvent(0, "Tempo")

\* C22: the ids of the migrations table are 0..k in this order, without gap
\* or duplicate, and k is the latest version once a startup has succeeded
C22_LedgerInOrder ==
    /\ migrations = [k \in 1..Len(migrations) |-> k - 1]
    /\ store_pc = "open" => DbVersion = LATEST_VERSION

\* a legacy directory was migrated through every version and the store is open
C22_Witness ==
    /\ store_pc = "open"
    /\ migrations = <<0, 1, 2>>
    /\ recordings # {}
    /\ \A r \in recordings : r.note_count = 2

\* C23: a startup on a directory that is at the latest version applies no
\* migration: it succeeds and leaves the migrations table, the recordings and
\* the backup files as they are
C23_StartupIdempotent ==
    [][(store_pc = "migrating" /\ DbVersion = LATEST_VERSION)
          => /\ store_pc' = "open"
             /\ UNCHANGED <<migrations, backups, recordings, data_directory>>]_vars

\* the second startup on a migrated directory has succeeded
C23_Witness ==
    /\ store_pc = "open"
    /\ Opens = 2
    /\ \A k \in 1..Len(store_log) : store_log[k].op = "open" => store_log[k].ok
    /\ Cardinality(backups) = 2

\* C24: a migration step from an existing version v below the latest first
\* copies the database as it is at v to autorec.db.v<v>; when that file
\* exists already, the startup fails, the file is left as it is and nothing is
\* migrated
C24_BackupBeforeMigration ==
    [][(store_pc = "migrating" /\ DbVersion >= 0 /\ DbVersion < LATEST_VERSION)
          => IF \E b \in backups : b.version = DbVersion
             THEN /\ store_pc' = "failed"
                  /\ UNCHANGED <<migrations, backups, recordings>>
             ELSE /\ [version |-> DbVersion, migrations |-> migrations,
                      recordings |-> recordings] \in backups'
                  /\ backups \subseteq backups']_vars

\* a first startup failed after its backup was taken, and the second one has
\* been refused because of that backup
C24_Witness ==
    /\ store_pc = "failed"
    /\ Opens = 2
    /\ DbVersion = 0
    /\ \E b \in backups : b.version = 0
    /\ \A f \in data_directory : f.smf.tracks # <<>>

\* C25: a startup on a database whose version is above the latest fails and
\* changes nothing: no migration, no ledger row, no backup file
C25_TooNewAborts ==
    [][(store_pc = "migrating" /\ DbVersion > LATEST_VERSION)
          => /\ store_pc' = "failed"
             /\ UNCHANGED <<migrations, backups, recordings, data_directory>>]_vars

\* the startup on a database of version 3 has failed
C25_Witness ==
    /\ store_pc = "failed"
    /\ DbVersion = 3
    /\ Opens >= 1
    /\ backups = {}

\* C26: rename_recording_by_id on an existing id succeeds and replaces the
\* name of that row only, every other column and row staying as it was, so a
\* second call with the same name succeeds too and changes nothing; on an
\* unknown id it fails and the table is unchanged
C26_RenameIdempotent ==
    [][(Len(store_log') = Len(store_log) + 1 /\ store_log'[Len(store_log')].op = "rename")
          => LET call == store_log'[Len(store_log')] IN
             IF call.id \in RowIds
             THEN /\ call.ok
                  /\ recordings' = (recordings \ {Row(call.id)})
                                      \cup {[Row(call.id) EXCEPT !.name = call.name]}
                  /\ Row(call.id).name = call.name => recordings' = recordings
             ELSE /\ ~call.ok
                  /\ recordings' = recordings]_vars

\* the same rename was made twice in a row and succeeded both times
C26_Witness ==
    /\ Len(store_log) >= 2
    /\ store_log[Len(store_log)] = RenameCall(1, "a", TRUE)
    /\ store_log[Len(store_log) - 1] = RenameCall(1, "a", TRUE)
    /\ 1 \in RowIds
    /\ Row(1).name = "a"

\* ------------------------------------------------- claims on the MIDI backend
\* C27: once next() has yielded None the recorder's poll is gone for good, a
\* further call would panic, and run_recorder / record_song never make one:
\* whenever the segmenter is awaiting next() the poll is still there, and after
\* None run_recorder has returned
C27_NoNextAfterNone ==
    /\ [](rec_pc \in {"first", "song"} => recorder_poll)
    /\ [](~recorder_poll => rec_pc = "done")
    /\ [][~recorder_poll => ~recorder_poll']_vars

\* the stream ended within a song: the song was handed over with reason
\* Disconnect and run_recorder returned
C27_Witness ==
    /\ ~recorder_poll
    /\ rec_pc = "done"
    /\ songs # <<>>
    /\ songs[Len(songs)].reason = "Disconnect"

\* the TimedEvent the specification gives a sequencer event, if any
ClaimedEvent(in) ==
    LET ev == in.event IN
    CASE ev.type = "Noteon" /\ ev.value > 0 ->
            <<[timestamp |-> in.tick,
               payload |-> [kind |-> "NoteOn", channel |-> ev.channel, key |-> ev.param,
                            value |-> ev.value]]>>
      [] (ev.type = "Noteon" /\ ev.value = 0) \/ ev.type = "Noteoff" ->
            <<[timestamp |-> in.tick,
               payload |-> [kind |-> "NoteOff", channel |-> ev.channel, key |-> ev.param,
                            value |-> 0]]>>
      [] ev.type = "Controller" ->
            <<[timestamp |-> in.tick,
               payload |-> [kind |-> "ControlChange", channel |-> ev.channel,
                            key |-> ev.param, value |-> ev.value]]>>
      [] ev.type = "PortUnsubscribed" -> <<NoRecordEvent>>
      [] OTHER -> <<>>

RECURSIVE ClaimedEvents(_)
ClaimedEvents(ins) ==
    IF ins = <<>> THEN <<>> ELSE ClaimedEvent(Head(ins)) \o ClaimedEvents(Tail(ins))

\* C28: what next() returns, followed by what is still buffered, is the
\* sequence of the events read, each mapped as specified (Noteon with velocity
\* above 0 to NoteOn, Noteon with velocity 0 and Noteoff to NoteOff, Controller
\* to ControlChange, any other type to nothing) up to the end of the stream;
\* no NoteOn with velocity 0 is ever returned
C28_EventMapping ==
    LET out == yielded \o event_buffer
        claimed == ClaimedEvents(alsa_in)
    IN  /\ Len(out) <= Len(claimed)
        /\ out = SubSeq(claimed, 1, Len(out))
        /\ recorder_poll => out = claimed
        /\ \A k \in 1..Len(yielded) :
              yielded[k] # NoRecordEvent
                 => ~(yielded[k].payload.kind = "NoteOn" /\ yielded[k].payload.value = 0)

\* a Noteon with velocity 0, an event of another type and a Noteon with
\* velocity 100 were read; next() has returned a NoteOff and a NoteOn
C28_Witness ==
    /\ Len(alsa_in) = 3
    /\ alsa_in[1].event.type = "Noteon" /\ alsa_in[1].event.value = 0
    /\ alsa_in[2].event.type = "Pitchbend"
    /\ alsa_in[3].event.type = "Noteon" /\ alsa_in[3].event.value = 100
    /\ Len(yielded) = 2
    /\ yielded[1].payload.kind = "NoteOff"
    /\ yielded[2].payload.kind = "NoteOn"

\* C29: DeviceListener::next never returns Connected for a client that is one
\* of the program's own (made by MidiRegistry::new_client and still open)
C29_NoOwnClientReported ==
    \A k \in 1..Len(device_events) :
        device_events[k].type = "Connected" => ~device_events[k].own

\* the events returned for one device
EventsOf(d) == SelectSeq(device_events, LAMBDA e : e.device = d)

\* C30: Disconnected is returned only for a device of the `active` set: the
\* events of a device never begin with Disconnected and never hold two
\* Disconnected in a row, `active` holds exactly the devices whose last event
\* is Connected, and a PortExit for a device outside `active` returns nothing
C30_DisconnectedOnlyIfActive ==
    /\ [](\A d \in ClientIds :
            LET es == EventsOf(d) IN
            /\ \A k \in 1..Len(es) :
                  es[k].type = "Disconnected"
                     => k > 1 /\ es[k - 1].type = "Connected"
            /\ d \in active <=> (es # <<>> /\ es[Len(es)].type = "Connected"))
    /\ [][(announce # <<>> /\ announce' = Tail(announce)
              /\ Head(announce).type = "PortExit" /\ Head(announce).addr \notin active)
            => UNCHANGED <<device_events, active>>]_vars

\* a device was reported, unplugged and reported as disconnected, and the
\* PortExit of a client that was never reported has been skipped
C30_Witness ==
    /\ Len(device_events) = 2
    /\ device_events[1] = DeviceEvent("Connected", 2, FALSE)
    /\ device_events[2] = DeviceEvent("Disconnected", 2, FALSE)
    /\ announce = <<>>
    /\ announced = 1
    /\ SeqClientIds = {ListenerClient}

\* C31: DeviceListener::next never returns Connected twice for one device
\* without a Disconnected for it between the two
C31_NoDuplicateConnected ==
    \A d \in ClientIds :
        \A k \in 2..Len(EventsOf(d)) :
            ~(EventsOf(d)[k - 1].type = "Connected" /\ EventsOf(d)[k].type = "Connected")

\* ------------------------------------------------ claims on the saved files
\* the track the claim gives a finished song: Tempo, one event per recorded
\* event with the difference of successive timestamps as delta, EndOfTrack
ClaimedTrack(evs) ==
    <<TrackEvent(0, "Tempo")>>
    \o [k \in 1..Len(evs) |->
           TrackEvent(IF k = 1 THEN 0 ELSE evs[k].timestamp - evs[k - 1].timestamp,
                      TrackEventKind(evs[k].payload))]
    \o <<TrackEvent(0, "EndOfTrack")>>

\* C32: the file the coordinator saves for a finished song has one track:
\* Tempo first, then one track event per event of the song in order, then
\* EndOfTrack
C32_SavedFileHasTempo ==
    [][(Received("RecordingDone") /\ data_directory' # data_directory)
         => \E f \in data_directory' :
               /\ f.filename = SongFileName
               /\ f.smf.tracks = <<ClaimedTrack(Head(app_rx).events)>>]_vars

\* ---------------------------------------------- claims on run_recorder's loop
\* the record_started / record_finished signals run_recorder has sent
RecordSignals ==
    SelectSeq(app_rx, LAMBDA e : e.type \in {"RecordingStart", "RecordingDone"})

C34_FailedStepRolledBack ==
    [][(store_pc = "migrating" /\ store_pc' = "failed") =>
          /\ recordings' = recordings
          /\ migrations' = migrations
          /\ store_log' = Append(store_log, OpenReturned(DbVersion, FALSE))
          /\ backups \subseteq backups'
          /\ \A b \in backups' \ backups :
                b = [version |-> DbVersion, migrations |-> migrations',
                     recordings |-> recordings']
          /\ NeedsBackup(DbVersion) =>
                \E b \in backups' : b.version = DbVersion /\ b.recordings = recordings']_vars

\* migrate_001 failed at the second of two rows, after the first row had
\* been rewritten inside the transaction; the backup of version 0 is there
C34_Witness ==
    /\ store_pc = "failed"
    /\ DbVersion = 0
    /\ Cardinality(recordings) = 2
    /\ Written001(CHOOSE r \in recordings : r.id = 2) # recordings
    /\ BackupExists(0)
    /\ Opens = 1

\* ------------------------------------------ claims on the segmented stream
\* the events of a song with its start tick added back
Restored(evs, start) ==
    [k \in 1..Len(evs) |-> [evs[k] EXCEPT !.timestamp = (@ + start) % TickModulus]]

RECURSIVE RestoredSongs(_)
\* the songs handed to finish_recording, one after the other
RestoredSongs(ss) ==
    IF ss = <<>> THEN <<>>
    ELSE Restored(Head(ss).events, Head(ss).start) \o RestoredSongs(Tail(ss))

\* a sequence of next() results up to its first None, the None left out
RECURSIVE BeforeNone(_)
BeforeNone(rs) ==
    IF rs = <<>> \/ Head(rs) = NoRecordEvent THEN <<>>
    ELSE <<Head(rs)>> \o BeforeNone(Tail(rs))

LastWhere(evs, P(_)) ==
    LET idx == {i \in 1..Len(evs) : P(evs[i])} IN
    IF idx = {} THEN <<>>
    ELSE <<evs[CHOOSE i \in idx : \A j \in idx : j <= i]>>

\* every key of evs is released and every pedal of evs is up at the end of evs
Closed(evs) ==
    /\ \A c \in 0..15, n \in {evs[i].payload.key : i \in 1..Len(evs)} :
          LET last == LastWhere(evs, LAMBDA e : /\ e.payload.kind \in {"NoteOn", "NoteOff"}
                                                /\ e.payload.channel = c
                                                /\ e.payload.key = n)
          IN  last # <<>> => last[1].payload.kind = "NoteOff"
    /\ \A c \in 0..15 :
          LET last == LastWhere(evs, LAMBDA e : /\ e.payload.kind = "ControlChange"
                                                /\ e.payload.key = 64
                                                /\ e.payload.channel = c)
          IN  last # <<>> => last[1].payload.value < 64

\* C36: a song ended by Idle before the MAX_IDLE_PERIODS-th timeout is
\* closed: the last note event of each of its keys is a NoteOff and the last
\* controller-64 event of each of its channels is below 64; and the keyboard
\* state of a song is built from that song's events alone
C36_IdleSongClosed ==
    /\ \A n \in 1..Len(songs) :
          (songs[n].reason = "Idle" /\ songs[n].timeouts < MAX_IDLE_PERIODS)
             => Closed(songs[n].events)
    /\ rec_pc = "song" =>
          /\ keyboard_state.pressed_keys = HeldKeys(events)
          /\ keyboard_state.sustain_channels = SustainedChannels(events)
          /\ KeyboardState_is_idle(keyboard_state) <=> Closed(events)

\* a song was cut off with a key or the pedal still held, and the next song,
\* which does not release it, ended as idle at its first timeout
C36_Witness ==
    /\ Len(songs) = 2
    /\ ~Closed(songs[1].events)
    /\ songs[1].timeouts = MAX_IDLE_PERIODS
    /\ songs[2].reason = "Idle"
    /\ songs[2].timeouts = 1
    /\ Len(songs[2].events) = 1
    /\ songs[2].events[1].payload.kind = "ControlChange"

\* ------------------------------------------------- claims on reconnections
\* the last thing the coordinator did was to store the song a Disconnect cut:
\* that song's RecordingDone was sent when the recorder's stream had ended,
\* so whatever the coordinator receives next was sent after the end of the
\* stream, and the session's RecorderShutDown has not been handled yet
StreamEndedBehind ==
    /\ changes # <<>>
    /\ changes[Len(changes)].type \in {"RecordEnd", "RecordError"}
    /\ Pending("RecordingDone") = {}
    /\ songs # <<>>
    /\ songs[Len(songs)].reason = "Disconnect"

\* C37: a matching DeviceConnected that was sent after the recorder's stream
\* had ended begins a new session (ListenBegin) when the coordinator handles
\* it, also when the old session's RecorderShutDown comes after it
C37_ReconnectPickedUp ==
    [][(/\ StreamEndedBehind
        /\ app_rx # <<>>
        /\ Head(app_rx).type = "DeviceConnected"
        /\ Head(app_rx).matches
        /\ app_rx' = Tail(app_rx))
         => changes' = Append(changes, StateChange("ListenBegin", None, None))]_vars

\* ------------------------------------------------ claims on play requests
\* a PlayerStopped is still to come: one is in the channel, or the task of
\* some player waits for its notifier
PlayerStoppedToCome ==
    \/ Pending("PlayerStopped") # {}
    \/ \E p \in Players : notifiers[p] = "waiting"

\* C38: a play request is never stuck: a PlayerStart handled while a player
\* handle is held waits in player_queued until the next PlayerStopped is
\* handled, so as long as a handle is held or a request is queued a
\* PlayerStopped is still to come
C38_NoStuckRequest ==
    (player # None \/ player_queued # None) => PlayerStoppedToCome

\* --------------------------------------------- claims on repeated startups
\* the startups that failed in a migration from an existing version
FailedMigrations ==
    {k \in 1..Len(store_log) : /\ store_log[k] = OpenReturned(store_log[k].id, FALSE)
                               /\ store_log[k].id \in 0..(LATEST_VERSION - 1)}

\* C39: once a startup has failed in the migration from version v, the
\* database stays at v, the backup autorec.db.v<v> is there, and every later
\* startup fails without migrating anything or touching a backup
C39_FailedMigrationSticks ==
    /\ [](\A k \in FailedMigrations :
            /\ DbVersion = store_log[k].id
            /\ \E b \in backups : b.version = DbVersion /\ b.migrations = migrations
            /\ \A j \in (k + 1)..Len(store_log) :
                  store_log[j] = OpenReturned(DbVersion, FALSE))
    /\ [][(store_pc = "migrating" /\ FailedMigrations # {})
            => /\ store_pc' = "failed"
               /\ UNCHANGED <<migrations, recordings, backups>>]_vars

\* the first startup failed in migrate_001 on a file that could be read on
\* the second, which was refused all the same
C39_Witness ==
    /\ store_pc = "failed"
    /\ store_log = <<OpenReturned(0, FALSE), OpenReturned(0, FALSE)>>
    /\ recordings # {}
    /\ Trackless = {}

\* ------------------------------------------------ claims on tick arithmetic
\* the timestamps of a song are what the u32 subtractions give without
\* wrapping: adding the start tick back stays below 2^32 (TickModulus in the
\* model), each timestamp is at least the one before, and the deltas
\* store_recording writes add up to the last timestamp
NoWrap(evs, start) ==
    /\ \A k \in 1..Len(evs) : evs[k].timestamp + start < TickModulus
    /\ \A k \in 2..Len(evs) : evs[k].timestamp - evs[k - 1].timestamp >= 0
    /\ evs # <<>> =>
          LET track == store_recording(evs).tracks[1] IN
          /\ \A k \in 1..Len(evs) :
                track[k].delta = (IF k = 1 THEN 0
                                  ELSE evs[k].timestamp - evs[k - 1].timestamp)
          /\ SumDeltas(track) = evs[Len(evs)].timestamp
          /\ SumDeltas(track) < TickModulus

\* C40: as long as the queue tick has not wrapped (the ticks of a queue run
\* are non-decreasing), no subtraction of record_song or store_recording and
\* no sum of compute_midi_stats leaves 0..2^32-1, for the songs handed over
\* and for the song being recorded
C40_TicksDoNotWrap ==
    queue_tick < TickModulus =>
        /\ \A n \in 1..Len(songs) : NoWrap(songs[n].events, songs[n].start)
        /\ NoWrap(events, start_tick)

\* a song that began two ticks below the largest tick and ended one tick
\* below it
C40_Witness ==
    /\ queue_tick = TickModulus - 1
    /\ Len(songs) = 1
    /\ songs[1].start = TickModulus - 2
    /\ Len(songs[1].events) = 2
    /\ songs[1].events[2].timestamp = 1

====
